---- MODULE Spec2Model ----
(***************************************************************************)
(* Model of the autostat scripting frontend (src/scripts): the Procedure   *)
(* wrapper CryoScript, the concrete procedures of he_purifier.py and the   *)
(* CryoScriptSequencer, running as equipment of one single-threaded MIDAS  *)
(* frontend.                                                               *)
(*                                                                         *)
(* Environment (the MIDAS client library, not part of the repository):     *)
(*  - every odb_set on a watched settings directory queues a notification  *)
(*    for the equipment that watches it; notifications are delivered in    *)
(*    FIFO order, one handler at a time, whenever the frontend thread is   *)
(*    inside client.communicate(): the main loop of the frontend, or the   *)
(*    communicate() call of a procedure that is waiting.  A handler that   *)
(*    is delivered while a procedure waits runs nested inside that wait.   *)
(*  - the handler receives the value the key holds when it is delivered,   *)
(*    and EquipmentBase refreshes self.settings just before calling it.    *)
(*  - an exception that leaves a handler ends that handler; what it wrote  *)
(*    before stays written.                                                *)
(* Only the notifications whose handler branch does something in the model *)
(* are queued (Enabled of a procedure or of the sequencer, and             *)
(* _script_is_running); the branch of CryoScript that copies an edited     *)
(* parameter back into the queue is outside the model.                     *)
(***************************************************************************)
EXTENDS Integers, Sequences, FiniteSets, TLC

(* ------------------------------ bounds -------------------------------- *)
\* queue_add is offered to the operator only below this queue length
MaxQueue == 2
\* queue_remove is offered only while the arrays lost fewer slots than this
MaxShrink == 1
\* the operator sends a command or writes to the store only while fewer
\* notifications wait
MaxPending == 1
\* a handler is delivered only if it leaves no more notifications waiting than
\* this: the operator's, and the two a handler queues
MaxHotlinks == MaxPending + 2
\* an activation is followed into a wait only while fewer activations are
\* suspended
MaxDepth == 1
\* the operator sets _nloops up to this
MaxLoops == 1

(* --------------------------- program constants ------------------------ *)
QUEUE_MAX_LEN == 64

None == "None"

\* procedures registered by fe_autostat_script.py that the model follows
SeqProcs == {"StopRecovery", "StopCirculation", "StartRegeneration"}
\* the procedures the operator puts in the queue
QueueProcs == {"StopRecovery", "StopCirculation"}
\* the procedures the operator enables by hand
ActProcs == {"StartCirculation", "StopCirculation"}
\* StartCirculation is defined in he_purifier.py but not registered
AllProcs == SeqProcs \cup {"StartCirculation"}

(* ------------------------- plant, as seen by checks -------------------- *)
\* the checklists are projected onto these devices
SwitchDevices == {"AV021", "AV024", "BP002", "MP001"}
Sensors == {"TS510"}
Levels == {99, 100, 101}

devices_on(p) ==
    CASE p = "StopCirculation" -> {"MP001"}
      [] p = "StopRecovery" -> {"MP001"}
      [] OTHER -> {}

devices_off(p) ==
    CASE p = "StartCirculation" -> {"BP002"}
      [] p = "StopCirculation" -> {"BP002"}
      [] p = "StopRecovery" -> {"BP002"}
      [] OTHER -> {}

devices_closed(p) ==
    CASE p = "StartCirculation" -> {"AV021", "AV024"}
      [] p = "StopRecovery" -> {"AV021"}
      [] p = "StartRegeneration" -> {"AV021", "AV024"}
      [] OTHER -> {}

devices_open(p) ==
    CASE p = "StopCirculation" -> {"AV021", "AV024"}
      [] OTHER -> {}

\* name :> threshold
devices_below(p) ==
    CASE p = "StartCirculation" -> [s \in {"TS510"} |-> 100]
      [] OTHER -> <<>>

devices_above(p) == <<>>

\* is_on / is_open of a device in the snapshot on (the devices that are on or open)
is_on(on, name) == name \in on
is_off(on, name) == ~ is_on(on, name)
is_open(on, name) == is_on(on, name)
is_closed(on, name) == ~ is_open(on, name)

\* the six loops of check_status: TRUE when the loop finds an entry to report
check_on(p, on) == \E name \in devices_on(p) : is_off(on, name)
check_off(p, on) == \E name \in devices_off(p) : is_on(on, name)
check_closed(p, on) == \E name \in devices_closed(p) : is_open(on, name)
check_open(p, on) == \E name \in devices_open(p) : is_closed(on, name)
check_below(p, rb) == \E name \in DOMAIN devices_below(p) : rb[name] > devices_below(p)[name]
check_above(p, rb) == \E name \in DOMAIN devices_above(p) : rb[name] < devices_above(p)[name]

check_status_mut(p, on, rb, dry) ==
    IF ~ dry /\ (check_on(p, on) \/ check_off(p, on) \/ check_closed(p, on))
    THEN "raise" ELSE "ok"

\* check_status: raises at the first reported entry unless dry_run
check_status(p, on, rb, dry) ==
    IF ~ dry /\ (check_on(p, on) \/ check_off(p, on) \/ check_closed(p, on)
                 \/ check_open(p, on) \/ check_below(p, rb) \/ check_above(p, rb))
    THEN "raise" ELSE "ok"

(* ------------------------------ exit() --------------------------------- *)
\* the device commands exit() issues, in order, and whether the body itself
\* raises before any of them (err)
exit_StopCirculation(rs) ==
    IF rs = None THEN [err |-> FALSE, cmds |-> <<>>]
    ELSE IF rs = "circulating"
         THEN [err |-> FALSE,
               cmds |-> <<"AV020.close", "AV021.close", "MP001.off", "MP002.off", "AV014.close">>]
         ELSE [err |-> FALSE, cmds |-> <<>>]

\* 'startup' in self.run_state: a TypeError when run_state is None
exit_StartRegeneration(rs) ==
    IF rs = None THEN [err |-> TRUE, cmds |-> <<>>]
    ELSE IF rs = "startup"
         THEN [err |-> FALSE, cmds |-> <<"BP002.off", "CP001.on", "CP101.on">>]
         ELSE [err |-> FALSE, cmds |-> <<>>]

exit_CryoScript(rs) == [err |-> FALSE, cmds |-> <<>>]

exit(p, rs) ==
    CASE p = "StopCirculation" -> exit_StopCirculation(rs)
      [] p = "StartRegeneration" -> exit_StartRegeneration(rs)
      [] OTHER -> exit_CryoScript(rs)

\* what one call of exit() can do: every device command may raise
\* (interlock, timeout), which ends the call there
ExitOutcomes(p, rs) ==
    LET e == exit(p, rs) IN
    IF e.err THEN {[raised |-> TRUE, acted |-> FALSE]}
    ELSE {[raised |-> FALSE, acted |-> Len(e.cmds) > 0]}
         \cup {[raised |-> TRUE, acted |-> TRUE] : k \in 1..Len(e.cmds)}

(* --------------------------- Python lists ------------------------------ *)
\* list[i] with Python's negative indices; an index outside raises IndexError
InRange(arr, i) == i >= -Len(arr) /\ i < Len(arr)
PyPos(arr, i) == IF i < 0 THEN Len(arr) + i + 1 ELSE i + 1
PyGet(arr, i) == arr[PyPos(arr, i)]
PyPop(arr, i) ==
    LET k == PyPos(arr, i) IN SubSeq(arr, 1, k - 1) \o SubSeq(arr, k + 1, Len(arr))
PySwap(arr, i, j) ==
    [arr EXCEPT ![PyPos(arr, i)] = PyGet(arr, j), ![PyPos(arr, j)] = PyGet(arr, i)]
Fill(n, v) == [i \in 1..n |-> v]
\* odb_set(f'{path}[{i}]', v) on the array arr: the store grows the array up
\* to slot i, with the empty value e, when i is past its end
SetIndex(arr, i, v, e) ==
    IF i < Len(arr) THEN [arr EXCEPT ![i + 1] = v]
    ELSE arr \o Fill(i - Len(arr), e) \o <<v>>

(* ------------------------ parameter strings ---------------------------- *)
\* a string is the sequence of its tokens; "," and ":" are the delimiters
\* _parnames of DEFAULT_SETTINGS
ParNames(p) ==
    CASE p = "StopRecovery" -> <<"press_thresh_mbar">>
      [] p = "StopCirculation" -> <<"MFC001_SL", "MFC001_bkgd_SLPM">>
      [] p = "StartRegeneration" -> <<"temperature_K", "fm208_thresh_slpm", "cg003_thresh">>
      [] OTHER -> <<>>

\* the values of DEFAULT_SETTINGS, as the text f'{val}' gives
DefaultPar(p) ==
    CASE p = "StopRecovery" -> [k \in {"press_thresh_mbar"} |-> "4"]
      [] p = "StopCirculation" ->
            [k \in {"MFC001_SL", "MFC001_bkgd_SLPM"} |->
                IF k = "MFC001_SL" THEN "1000" ELSE "0.5"]
      [] p = "StartRegeneration" ->
            [k \in {"temperature_K", "fm208_thresh_slpm", "cg003_thresh"} |->
                IF k = "temperature_K" THEN "180"
                ELSE IF k = "fm208_thresh_slpm" THEN "1.0" ELSE "0.2"]
      [] OTHER -> <<>>

RECURSIVE JoinPars(_, _, _)
\* ','.join(f'{parname}:{val}' ...) over names[i..]
JoinPars(names, par, i) ==
    IF i > Len(names) THEN <<>>
    ELSE <<names[i], ":", par[names[i]]>>
         \o (IF i < Len(names) THEN <<",">> ELSE <<>>)
         \o JoinPars(names, par, i + 1)

RECURSIVE Split(_, _)
\* str.split(d)
Split(s, d) ==
    IF \A i \in 1..Len(s) : s[i] # d THEN <<s>>
    ELSE LET i == CHOOSE i \in 1..Len(s) : s[i] = d /\ \A j \in 1..(i - 1) : s[j] # d
         IN <<SubSeq(s, 1, i - 1)>> \o Split(SubSeq(s, i + 1, Len(s)), d)

RECURSIVE ParseFrom(_, _)
\* the loop of start_script over parstrs.split(','): the (key, val) pairs written
\* before the first piece that does not split in two at ':' (ValueError), and
\* whether the loop got through
ParseFrom(parts, i) ==
    IF i > Len(parts) THEN [writes |-> <<>>, ok |-> TRUE]
    ELSE LET kv == Split(parts[i], ":") IN
         IF Len(kv) # 2 THEN [writes |-> <<>>, ok |-> FALSE]
         ELSE LET rest == ParseFrom(parts, i + 1) IN
              [writes |-> <<kv>> \o rest.writes, ok |-> rest.ok]

ParseInputs(parstrs) == ParseFrom(Split(parstrs, ","), 1)

RECURSIVE ApplyWrites(_, _, _)
\* odb_set(f'/Equipment/{name}/Settings/{key}', val) for each pair, on the
\* parameters par of the procedure
ApplyWrites(par, writes, i) ==
    IF i > Len(writes) THEN par
    ELSE LET kv == writes[i]
             key == IF Len(kv[1]) = 1 THEN kv[1][1] ELSE ""
             val == IF Len(kv[2]) = 1 THEN kv[2][1] ELSE ""
         IN ApplyWrites(IF key \in DOMAIN par THEN [par EXCEPT ![key] = val] ELSE par,
                        writes, i + 1)

(* ------------------------------- state --------------------------------- *)
VARIABLES
    \* /Equipment/CryoScriptSequencer/Settings
    seqEnabled, seqDryRun, functions, inputs, current, scriptIsRunning,
    queueLength, nloops,
    \* /Equipment/<procedure>/Settings
    pEnabled, pDryRun, pExitErr, pPar,
    \* the procedure objects: self.settings['Enabled'] and self.run_state
    settingsEnabled, runState,
    \* notifications waiting for delivery, and the activations suspended in wait()
    hotlinks, stack,
    \* history: the activation that ended in the last step, what the sequencer
    \* did in the last step, and the last direct call of exit()
    last, event, call,
    \* history: the entries the sequencer started since it was enabled
    tally,
    \* the PID control loop (SpecPid), the device commanded by a procedure
    \* (SpecDevice), the procedure in wait() (SpecWait) and the settings of a
    \* control loop (SpecSettings); 0 in the specifications that leave them out
    pid, dev, wt, cfg, ens, scr

seqVars == <<seqEnabled, seqDryRun, functions, inputs, current, scriptIsRunning,
             queueLength, nloops>>
procVars == <<pEnabled, pDryRun, pExitErr, pPar, settingsEnabled, runState>>
pidVars == <<pid, dev, wt, cfg, ens, scr>>
vars == <<seqVars, procVars, hotlinks, stack, last, event, call, tally, pidVars>>

NoAct == [proc |-> "", viol |-> FALSE, dry |-> FALSE, ran |-> FALSE, exc |-> FALSE,
          armed |-> FALSE, nexit |-> 0, ended |-> ""]
NoEvent == ""
NoCall == [proc |-> "", rs |-> None, raised |-> FALSE, acted |-> FALSE, n |-> 0]
\* on: the tally is kept; c0, n0: _current and _nloops when Enabled = true
\* was delivered to the sequencer; rest: no other notification waited and no
\* procedure was enabled or suspended then; starts: the indices passed to
\* start_script since; how: where the run stands
NoTally == [on |-> FALSE, c0 |-> -1, n0 |-> 0, rest |-> FALSE, starts |-> <<>>, how |-> ""]

PidIdle == pid = 0 /\ dev = 0 /\ wt = 0 /\ cfg = 0 /\ ens = 0 /\ scr = 0

\* DEFAULT_SETTINGS of the sequencer and of the procedures
Init ==
    /\ seqEnabled = FALSE
    /\ seqDryRun = FALSE
    /\ functions = Fill(QUEUE_MAX_LEN, "")
    /\ inputs = Fill(QUEUE_MAX_LEN, <<>>)
    /\ current = -1
    /\ scriptIsRunning = FALSE
    /\ queueLength = 0
    /\ nloops = 0
    /\ pEnabled = [p \in AllProcs |-> FALSE]
    /\ pDryRun = [p \in AllProcs |-> FALSE]
    /\ pExitErr = [p \in AllProcs |-> FALSE]
    /\ pPar = [p \in AllProcs |-> DefaultPar(p)]
    /\ settingsEnabled = [p \in AllProcs |-> FALSE]
    /\ runState = [p \in AllProcs |-> None]
    /\ hotlinks = <<>>
    /\ stack = <<>>
    /\ last = NoAct
    /\ event = NoEvent
    /\ call = NoCall
    /\ tally = NoTally
    /\ PidIdle

(* ------------------------------- run() --------------------------------- *)
\* What running a procedure body from one point to its next communicate() can
\* do.  k: "yield" (blocked in communicate at pc), "return" or "raise";
\* rs: self.run_state then; nx: calls of self.exit() made by the body itself
\* (2 stands for two or more).
\* Device reads and device commands are inputs: a wait condition may hold or
\* not, a command may succeed or raise (EpicsInterlockError, EpicsTimeoutError,
\* TimeoutError).
Yield(pc, rs, nx) == [k |-> "yield", pc |-> pc, rs |-> rs, nx |-> nx]
Return(rs, nx) == [k |-> "return", pc |-> "", rs |-> rs, nx |-> nx]
Raise(rs, nx) == [k |-> "raise", pc |-> "", rs |-> rs, nx |-> nx]

\* wait(): the loop is entered, or goes round again, only when not dry_run and
\* self.settings['Enabled']; the condition is an input
wait(pc, rs, en, dry) == IF ~ dry /\ en THEN {Yield(pc, rs, 0)} ELSE {}
\* the while test of wait() after communicate() returned: dry_run is not read again
wait_again(pc, rs, en) == IF en THEN {Yield(pc, rs, 0)} ELSE {}

\* StopRecovery.run
StopRecovery_PT005(rs, en, dry) ==
    wait("wait_PT005", rs, en, dry) \cup {Raise(rs, 0), Return(rs, 0)}
StopRecovery_after_PT005(rs) == {Raise(rs, 0), Return(rs, 0)}
StopRecovery_PT004(rs, en, dry) ==
    wait("wait_PT004", rs, en, dry) \cup {Raise(rs, 0)} \cup StopRecovery_PT005(rs, en, dry)

run_StopRecovery(pc, rs, en, dry) ==
    CASE pc = "start" -> StopRecovery_PT004(rs, en, dry)
      [] pc = "wait_PT004" -> wait_again(pc, rs, en) \cup StopRecovery_PT005(rs, en, dry)
      [] pc = "wait_PT005" -> wait_again(pc, rs, en) \cup StopRecovery_after_PT005(rs)

\* StartRegeneration.run
StartRegeneration_FM208(en, dry) ==
    wait("wait_FM208", None, en, dry) \cup {Return(None, 0)}
\* from the security-valve check to the grace period: run_state is 'startup'
\* up to "self.run_state = None" and None after it
StartRegeneration_panel(en, dry) ==
    {Raise("startup", 0), Raise(None, 0)}
    \cup (IF dry THEN StartRegeneration_FM208(en, dry) ELSE {Yield("grace", None, 0)})

run_StartRegeneration(pc, rs, en, dry) ==
    CASE pc = "start" ->
            {Raise("startup", 0)} \cup wait("wait_CG003", "startup", en, dry)
            \cup StartRegeneration_panel(en, dry)
      [] pc = "wait_CG003" -> wait_again(pc, rs, en) \cup StartRegeneration_panel(en, dry)
      [] pc = "grace" -> StartRegeneration_FM208(en, dry)
      [] pc = "wait_FM208" -> wait_again(pc, rs, en) \cup {Return(rs, 0)}

\* StopCirculation.run: one pass of the while loop up to communicate(), with
\* run_state rs.  The loop does not read Enabled.
StopCirculation_loop(rs, dry) ==
    LET ex == ExitOutcomes("StopCirculation", rs) IN
    IF ~ dry
    THEN \* volume reached; clog handled (valve command raised, or break);
         \* pressures in bounds; out of bounds for too long: self.exit(), raise
         {Return(rs, 0), Raise(rs, 0), Return(None, 0),
          Yield("circ_loop", rs, 0)}
         \cup {Raise(rs, 1) : x \in ex}
    ELSE \* dry_run: out of bounds calls self.exit() and goes on; "continue"
         \* repeats the pass without communicate()
         {Return(rs, 0), Yield("circ_loop", rs, 0)}
         \cup {Yield("circ_loop", rs, n) : n \in 1..2, x \in {y \in ex : ~ y.raised}}
         \cup {Raise(rs, n) : n \in 1..2, x \in ex}

run_StopCirculation(pc, rs, en, dry) ==
    CASE pc = "start" -> StopCirculation_loop("circulating", dry)
      [] pc = "circ_loop" ->
            IF dry THEN {Return(rs, 0)} ELSE StopCirculation_loop(rs, dry)

\* StartCirculation.run: device commands and time.sleep only
run_StartCirculation(pc, rs, en, dry) == {Raise(rs, 0), Return(rs, 0)}

run(p, pc, rs, en, dry) ==
    CASE p = "StopRecovery" -> run_StopRecovery(pc, rs, en, dry)
      [] p = "StartRegeneration" -> run_StartRegeneration(pc, rs, en, dry)
      [] p = "StopCirculation" -> run_StopCirculation(pc, rs, en, dry)
      [] p = "StartCirculation" -> run_StartCirculation(pc, rs, en, dry)

Cap2(n) == IF n > 2 THEN 2 ELSE n

(* ------------------- CryoScript.detailed_settings_changed_func ---------- *)
\* an entry of the checklists does not hold in the snapshot
ChecklistViolated(p, on, rb) ==
    \/ \E name \in devices_on(p) : name \notin on
    \/ \E name \in devices_off(p) : name \in on
    \/ \E name \in devices_open(p) : name \notin on
    \/ \E name \in devices_closed(p) : name \in on
    \/ \E name \in DOMAIN devices_below(p) : rb[name] > devices_below(p)[name]
    \/ \E name \in DOMAIN devices_above(p) : rb[name] < devices_above(p)[name]

\* the call of exit() in the finally clause
final_exit(p, rs) ==
    IF rs # None
    THEN {[called |-> TRUE, raised |-> x.raised, acted |-> x.acted] : x \in ExitOutcomes(p, rs)}
    ELSE {[called |-> FALSE, raised |-> FALSE, acted |-> FALSE]}

\* except / else / finally, after the try block ended as o.  hl, stk, pe, se:
\* the notifications, suspended activations, _exit_with_error flags and
\* settings caches to continue from; a: the record of this activation
Finish(p, hl, stk, pe, se, a, o) ==
    LET excd == o.k = "raise"
        rs1 == IF excd THEN o.rs ELSE None
    IN \E x \in final_exit(p, rs1) :
        /\ runState' = [runState EXCEPT ![p] = rs1]
        /\ pExitErr' = IF excd THEN [pe EXCEPT ![p] = TRUE] ELSE pe
        /\ settingsEnabled' = se
        /\ stack' = stk
        /\ last' = [a EXCEPT !.exc = excd, !.armed = rs1 # None,
                             !.nexit = Cap2(a.nexit + o.nx + (IF x.called THEN 1 ELSE 0)),
                             !.ended = IF x.raised THEN "aborted" ELSE "cleared"]
        /\ IF x.raised
           THEN /\ pEnabled' = pEnabled
                /\ scriptIsRunning' = scriptIsRunning
                /\ hotlinks' = hl
           ELSE /\ pEnabled' = [pEnabled EXCEPT ![p] = FALSE]
                /\ scriptIsRunning' = FALSE
                /\ hotlinks' = hl \o << <<p, "Enabled">>, <<"Seq", "_script_is_running">> >>

\* the try block goes on with one of outs
Proceed(p, hl, stk, pe, se, a, outs) ==
    /\ \E o \in outs :
        IF o.k = "yield"
        THEN /\ Len(stk) < MaxDepth
             /\ stack' = Append(stk, [a EXCEPT !.pc = o.pc, !.nexit = Cap2(a.nexit + o.nx)])
             /\ runState' = [runState EXCEPT ![p] = o.rs]
             /\ pExitErr' = pe
             /\ settingsEnabled' = se
             /\ last' = NoAct
             /\ UNCHANGED <<pEnabled, scriptIsRunning>>
             /\ hotlinks' = hl
        ELSE Finish(p, hl, stk, pe, se, [k \in DOMAIN NoAct |-> a[k]], o)
    /\ Len(hotlinks') <= MaxHotlinks
    /\ event' = NoEvent
    /\ UNCHANGED <<seqEnabled, seqDryRun, functions, inputs, current, queueLength, nloops,
                   pDryRun, pPar, call, tally, pidVars>>

\* 'Enabled' in path and new_value: check_status(), then run()
Activate(p, hl, se) ==
    LET pe == [pExitErr EXCEPT ![p] = FALSE]
        dry == pDryRun[p]
    IN \E snap \in {<<ChecklistViolated(p, on, rb), check_status(p, on, rb, dry)>> :
                        on \in SUBSET SwitchDevices, rb \in [Sensors -> Levels]} :
        LET a == [proc |-> p, viol |-> snap[1], dry |-> dry,
                  ran |-> FALSE, exc |-> FALSE, armed |-> FALSE, nexit |-> 0,
                  ended |-> "", pc |-> "start"]
        IN IF snap[2] = "raise"
           THEN Proceed(p, hl, stack, pe, se, a, {Raise(runState[p], 0)})
           ELSE Proceed(p, hl, stack, pe, se, [a EXCEPT !.ran = TRUE],
                        run(p, "start", runState[p], TRUE, dry))

\* a notification of a procedure's Enabled is delivered
DispatchProcEnabled ==
    /\ hotlinks # <<>>
    /\ Head(hotlinks)[1] \in AllProcs
    /\ LET p == Head(hotlinks)[1]
           hl == Tail(hotlinks)
           se == [settingsEnabled EXCEPT ![p] = pEnabled[p]]
       IN IF pEnabled[p]
          THEN Activate(p, hl, se)
          ELSE /\ hotlinks' = hl
               /\ settingsEnabled' = se
               /\ last' = NoAct
               /\ event' = NoEvent
               /\ UNCHANGED <<seqVars, pEnabled, pDryRun, pExitErr, pPar, runState, stack, call, tally, pidVars>>

\* communicate() returns to the procedure suspended last
Resume ==
    /\ stack # <<>>
    /\ LET f == stack[Len(stack)]
           p == f.proc
       IN Proceed(p, hotlinks, SubSeq(stack, 1, Len(stack) - 1), pExitErr, settingsEnabled, f,
                  run(p, f.pc, runState[p], settingsEnabled[p], pDryRun[p]))

(* --------------------------- CryoScriptSequencer ----------------------- *)
\* odb_exists(f'/Equipment/{name}/Settings'): the registered procedures
Registered(name) == name \in SeqProcs

\* the index arguments the operator sends with remove, up and down: the
\* indices of the entries in the queue
IdxArgs == 0..(queueLength - 1)

QueueFrame == <<seqEnabled, seqDryRun, scriptIsRunning, nloops, procVars, hotlinks, stack, call, tally, pidVars>>

\* queue_add(name)
queue_add(name) ==
    LET parstr == JoinPars(ParNames(name), pPar[name], 1)
        i == queueLength
    IN /\ functions' = SetIndex(functions, i, name, "")
       /\ inputs' = SetIndex(inputs, i, parstr, <<>>)
       /\ queueLength' = i + 1
       /\ UNCHANGED current

\* queue_clear(); Enabled is written, so the sequencer is notified
queue_clear ==
    /\ functions' = Fill(QUEUE_MAX_LEN, "")
    /\ inputs' = Fill(QUEUE_MAX_LEN, <<>>)
    /\ queueLength' = 0
    /\ current' = 0
    /\ seqEnabled' = FALSE
    /\ hotlinks' = Append(hotlinks, <<"Seq", "Enabled">>)

\* queue_down(idx)
queue_down(idx) ==
    IF idx = queueLength - 1 \/ ~ InRange(functions, idx) \/ ~ InRange(functions, idx + 1)
    THEN UNCHANGED <<functions, inputs, current>>
    ELSE /\ functions' = PySwap(functions, idx, idx + 1)
         /\ inputs' = PySwap(inputs, idx, idx + 1)
         /\ current' = IF idx = current THEN current + 1
                       ELSE IF idx + 1 = current THEN current - 1 ELSE current

queue_up_mut(idx) ==
    IF idx = 0 \/ ~ InRange(functions, idx) \/ ~ InRange(functions, idx - 1)
    THEN UNCHANGED <<functions, inputs, current>>
    ELSE /\ functions' = PySwap(functions, idx, idx - 1)
         /\ inputs' = PySwap(inputs, idx, idx - 1)
         /\ current' = current

\* queue_up(idx)
queue_up(idx) ==
    IF idx = 0 \/ ~ InRange(functions, idx) \/ ~ InRange(functions, idx - 1)
    THEN UNCHANGED <<functions, inputs, current>>
    ELSE /\ functions' = PySwap(functions, idx, idx - 1)
         /\ inputs' = PySwap(inputs, idx, idx - 1)
         /\ current' = IF idx = current THEN current - 1
                       ELSE IF idx - 1 = current THEN current + 1 ELSE current

remove_rejected_mut(idx) == idx = current /\ ~ seqEnabled

\* the test that rejects the removal
remove_rejected(idx) == idx = current /\ seqEnabled

queue_remove_mut(idx) ==
    IF remove_rejected(idx) \/ ~ InRange(functions, idx)
    THEN UNCHANGED <<functions, inputs, queueLength, current>>
    ELSE /\ functions' = PyPop(functions, idx)
         /\ inputs' = PyPop(inputs, idx)
         /\ queueLength' = IF queueLength - 1 > 0 THEN queueLength - 1 ELSE 0
         /\ current' = current

\* queue_remove(idx)
queue_remove(idx) ==
    IF remove_rejected(idx) \/ ~ InRange(functions, idx)
    THEN UNCHANGED <<functions, inputs, queueLength, current>>
    ELSE /\ functions' = PyPop(functions, idx)
         /\ inputs' = PyPop(inputs, idx)
         /\ queueLength' = IF queueLength - 1 > 0 THEN queueLength - 1 ELSE 0
         /\ current' = IF current > idx THEN current - 1 ELSE current

\* history of a remove command: where idx lay
RemoveCase(idx) ==
    IF remove_rejected(idx) THEN "remove_rejected"
    ELSE IF ~ InRange(functions, idx) THEN "remove_error"
    ELSE IF idx < current THEN "remove_before"
    ELSE IF idx > current THEN "remove_after"
    ELSE "remove_at"

\* the operator adds to a queue shorter than MaxQueue, and to one that is
\* full or fewer than MaxQueue entries from full
AddOffered ==
    \/ queueLength < MaxQueue
    \/ (queueLength > QUEUE_MAX_LEN - MaxQueue /\ queueLength <= QUEUE_MAX_LEN)

\* rpc_handler: the commands of the operator page
RpcAdd(name) ==
    /\ Len(hotlinks) < MaxPending
    /\ AddOffered
    /\ queue_add(name)
    /\ event' = NoEvent
    /\ last' = NoAct
    /\ UNCHANGED QueueFrame

RpcRemove(idx) ==
    /\ Len(hotlinks) < MaxPending
    /\ Len(functions) > QUEUE_MAX_LEN - MaxShrink
    /\ queue_remove(idx)
    /\ event' = RemoveCase(idx)
    /\ last' = NoAct
    /\ UNCHANGED QueueFrame

RpcUp(idx) ==
    /\ Len(hotlinks) < MaxPending
    /\ queue_up(idx)
    /\ event' = NoEvent
    /\ last' = NoAct
    /\ UNCHANGED <<queueLength, QueueFrame>>

RpcDown(idx) ==
    /\ Len(hotlinks) < MaxPending
    /\ queue_down(idx)
    /\ event' = NoEvent
    /\ last' = NoAct
    /\ UNCHANGED <<queueLength, QueueFrame>>

RpcClear ==
    /\ Len(hotlinks) < MaxPending
    /\ queue_clear
    /\ event' = NoEvent
    /\ last' = NoAct
    /\ UNCHANGED <<seqDryRun, scriptIsRunning, nloops, procVars, stack, call, tally, pidVars>>

\* start_script(idx), continuing from the notifications hl: the parameters
\* written before a ValueError stay written
start_script(idx, hl) ==
    IF ~ InRange(inputs, idx)
    THEN /\ hotlinks' = hl
         /\ UNCHANGED <<pPar, pDryRun, pEnabled, scriptIsRunning>>
    ELSE LET parstrs == PyGet(inputs, idx)
             name == PyGet(functions, idx)
             parsed == ParseInputs(parstrs)
         IN /\ pPar' = IF name \in AllProcs
                       THEN [pPar EXCEPT ![name] = ApplyWrites(pPar[name], parsed.writes, 1)]
                       ELSE pPar
            /\ IF parsed.ok
               THEN /\ pDryRun' = IF name \in AllProcs
                                  THEN [pDryRun EXCEPT ![name] = seqDryRun] ELSE pDryRun
                    /\ pEnabled' = IF name \in AllProcs
                                   THEN [pEnabled EXCEPT ![name] = TRUE] ELSE pEnabled
                    /\ scriptIsRunning' = TRUE
                    /\ hotlinks' = hl \o (IF name \in AllProcs THEN << <<name, "Enabled">> >>
                                          ELSE <<>>)
                                     \o << <<"Seq", "_script_is_running">> >>
               ELSE /\ hotlinks' = hl
                    /\ UNCHANGED <<pDryRun, pEnabled, scriptIsRunning>>

\* start_script(idx) gets through: the slot exists and its parameter string
\* splits into key:value pairs
start_ok(idx) == InRange(inputs, idx) /\ ParseInputs(PyGet(inputs, idx)).ok

\* the tally after a step, where it is kept
Kept(t) == IF tally.on THEN t ELSE tally

queue_empty_mut == FALSE

\* self.settings['_queue_length'] == 0
queue_empty == queueLength = 0

\* detailed_settings_changed_func, 'Enabled' in path
DispatchSeqEnabled ==
    /\ hotlinks # <<>>
    /\ Head(hotlinks) = <<"Seq", "Enabled">>
    /\ LET hl == Tail(hotlinks) IN
       IF seqEnabled
       THEN IF queue_empty
            THEN /\ seqEnabled' = FALSE
                 /\ hotlinks' = Append(hl, <<"Seq", "Enabled">>)
                 /\ UNCHANGED <<pPar, pDryRun, pEnabled, scriptIsRunning>>
            ELSE /\ start_script(current, hl)
                 /\ UNCHANGED seqEnabled
       ELSE /\ UNCHANGED <<seqEnabled, pPar, pDryRun, scriptIsRunning>>
            /\ IF InRange(functions, current) /\ Registered(PyGet(functions, current))
               THEN /\ pEnabled' = [pEnabled EXCEPT ![PyGet(functions, current)] = FALSE]
                    /\ hotlinks' = Append(hl, <<PyGet(functions, current), "Enabled">>)
               ELSE /\ hotlinks' = hl
                    /\ UNCHANGED pEnabled
    /\ Len(hotlinks') <= MaxHotlinks
    /\ last' = NoAct
    /\ event' = NoEvent
    /\ tally' = Kept(IF ~ seqEnabled THEN tally
                     ELSE [on |-> TRUE, c0 |-> current, n0 |-> nloops,
                           rest |-> /\ Tail(hotlinks) = <<>> /\ stack = <<>>
                                    /\ \A p \in AllProcs : ~ pEnabled[p],
                           starts |-> IF queue_empty THEN <<>> ELSE <<current>>,
                           how |-> IF queue_empty THEN "empty"
                                   ELSE IF start_ok(current) THEN "running"
                                   ELSE "start_failed"])
    /\ UNCHANGED <<seqDryRun, functions, inputs, current, queueLength, nloops,
                   pExitErr, settingsEnabled, runState, stack, call, pidVars>>

\* not new_value, the sequencer is enabled, and the slot at the cursor names
\* a procedure whose _exit_with_error can be read
completion_seen ==
    /\ ~ scriptIsRunning
    /\ seqEnabled
    /\ InRange(functions, current)
    /\ Registered(PyGet(functions, current))

error_exit_mut == FALSE

\* the running procedure named at the cursor reported an error exit
error_exit == pExitErr[PyGet(functions, current)]

loop_again_mut == nloops > 1

\* self.settings['_nloops'] > 0
loop_again == nloops > 0

\* detailed_settings_changed_func, '_script_is_running' in path
DispatchSeqScriptIsRunning ==
    /\ hotlinks # <<>>
    /\ Head(hotlinks) = <<"Seq", "_script_is_running">>
    /\ LET hl == Tail(hotlinks) IN
       IF ~ completion_seen
       THEN /\ hotlinks' = hl
            /\ UNCHANGED <<seqEnabled, current, nloops, pPar, pDryRun, pEnabled, scriptIsRunning>>
       ELSE IF error_exit
       THEN /\ seqEnabled' = FALSE
            /\ hotlinks' = Append(hl, <<"Seq", "Enabled">>)
            /\ UNCHANGED <<current, nloops, pPar, pDryRun, pEnabled, scriptIsRunning>>
       ELSE IF current + 1 >= queueLength
       THEN /\ current' = 0
            /\ IF loop_again
               THEN /\ nloops' = nloops - 1
                    /\ start_script(0, hl)
                    /\ UNCHANGED seqEnabled
               ELSE /\ seqEnabled' = FALSE
                    /\ hotlinks' = Append(hl, <<"Seq", "Enabled">>)
                    /\ UNCHANGED <<nloops, pPar, pDryRun, pEnabled, scriptIsRunning>>
       ELSE /\ current' = current + 1
            /\ start_script(current + 1, hl)
            /\ UNCHANGED <<seqEnabled, nloops>>
    /\ Len(hotlinks') <= MaxHotlinks
    /\ last' = NoAct
    /\ event' = IF completion_seen /\ error_exit THEN "error_stop" ELSE NoEvent
    /\ tally' = Kept(IF ~ completion_seen THEN tally
                     ELSE IF tally.how # "running" THEN [tally EXCEPT !.how = "stray"]
                     ELSE IF error_exit THEN [tally EXCEPT !.how = "error_stop"]
                     ELSE IF current + 1 >= queueLength
                     THEN IF loop_again
                          THEN [tally EXCEPT !.starts = Append(@, 0),
                                             !.how = IF start_ok(0) THEN "running"
                                                     ELSE "start_failed"]
                          ELSE [tally EXCEPT !.how = "wrap_stop"]
                     ELSE [tally EXCEPT !.starts = Append(@, current + 1),
                                        !.how = IF start_ok(current + 1) THEN "running"
                                                ELSE "start_failed"])
    /\ UNCHANGED <<seqDryRun, functions, inputs, queueLength,
                   pExitErr, settingsEnabled, runState, stack, call, pidVars>>

(* ------------------------------ operator ------------------------------- *)
\* the operator writes Enabled of the sequencer
OpEnable(b) ==
    /\ Len(hotlinks) < MaxPending
    /\ seqEnabled # b
    /\ seqEnabled' = b
    /\ hotlinks' = Append(hotlinks, <<"Seq", "Enabled">>)
    /\ last' = NoAct
    /\ event' = NoEvent
    /\ UNCHANGED <<seqDryRun, functions, inputs, current, scriptIsRunning, queueLength,
                   nloops, procVars, stack, call, tally, pidVars>>

\* a procedure can be enabled by hand: the operator writes Enabled or dry_run
\* of a procedure
OpEnableProc(p, b) ==
    /\ Len(hotlinks) < MaxPending
    /\ pEnabled[p] # b
    /\ pEnabled' = [pEnabled EXCEPT ![p] = b]
    /\ hotlinks' = Append(hotlinks, <<p, "Enabled">>)
    /\ last' = NoAct
    /\ event' = NoEvent
    /\ UNCHANGED <<seqVars, pDryRun, pExitErr, pPar, settingsEnabled, runState, stack, call, tally, pidVars>>

OpSetProcDryRun(p, b) ==
    /\ Len(hotlinks) < MaxPending
    /\ pDryRun[p] # b
    /\ pDryRun' = [pDryRun EXCEPT ![p] = b]
    /\ last' = NoAct
    /\ event' = NoEvent
    /\ UNCHANGED <<seqVars, pEnabled, pExitErr, pPar, settingsEnabled, runState,
                   hotlinks, stack, call, tally, pidVars>>

\* a direct call of exit() on a procedure object, with the run_state it has
CallExit(p) ==
    /\ \E x \in ExitOutcomes(p, runState[p]) :
          call' = [proc |-> p, rs |-> runState[p], raised |-> x.raised, acted |-> x.acted,
                   n |-> IF call.proc = p THEN Cap2(call.n + 1) ELSE 1]
    /\ UNCHANGED <<seqVars, procVars, hotlinks, stack, last, event, tally, pidVars>>

(* --------------------------- specifications ---------------------------- *)
\* the frontend with the sequencer driving the queued procedures
Next ==
    \/ \E name \in QueueProcs : RpcAdd(name)
    \/ \E idx \in IdxArgs : RpcRemove(idx)
    \/ \E idx \in IdxArgs : RpcUp(idx)
    \/ \E idx \in IdxArgs : RpcDown(idx)
    \/ RpcClear
    \/ \E b \in BOOLEAN : OpEnable(b)
    \/ DispatchSeqEnabled
    \/ DispatchSeqScriptIsRunning
    \/ DispatchProcEnabled
    \/ Resume

Spec == Init /\ [][Next]_vars

\* the procedures the operator activates by hand, dry_run included
NextActivation ==
    \/ \E p \in ActProcs, b \in BOOLEAN : OpEnableProc(p, b)
    \/ \E p \in ActProcs, b \in BOOLEAN : OpSetProcDryRun(p, b)
    \/ DispatchProcEnabled
    \/ DispatchSeqScriptIsRunning
    \/ Resume

SpecActivation == Init /\ [][NextActivation]_vars

\* the first and the last MaxQueue indices of the entries in the queue
EndIdxArgs == {i \in IdxArgs : i < MaxQueue \/ i >= queueLength - MaxQueue}

\* a queue of n entries of the procedure name, as n calls of queue_add leave it
Queued(n, name) ==
    /\ functions = [i \in 1..QUEUE_MAX_LEN |-> IF i <= n THEN name ELSE ""]
    /\ inputs = [i \in 1..QUEUE_MAX_LEN |->
                    IF i <= n THEN JoinPars(ParNames(name), DefaultPar(name), 1) ELSE <<>>]
    /\ queueLength = n

\* the operator adds to the queue, moves its entries and clears it while the
\* sequencer is stopped: from the empty queue, or from one that is one entry
\* from full; the cursor is as DEFAULT_SETTINGS or as queue_clear() leave it
InitQueue ==
    /\ seqEnabled = FALSE
    /\ seqDryRun = FALSE
    /\ \E n \in {0, QUEUE_MAX_LEN - 1} : \E name \in QueueProcs : Queued(n, name)
    /\ current \in {-1, 0}
    /\ scriptIsRunning = FALSE
    /\ nloops = 0
    /\ pEnabled = [p \in AllProcs |-> FALSE]
    /\ pDryRun = [p \in AllProcs |-> FALSE]
    /\ pExitErr = [p \in AllProcs |-> FALSE]
    /\ pPar = [p \in AllProcs |-> DefaultPar(p)]
    /\ settingsEnabled = [p \in AllProcs |-> FALSE]
    /\ runState = [p \in AllProcs |-> None]
    /\ hotlinks = <<>>
    /\ stack = <<>>
    /\ last = NoAct
    /\ event = NoEvent
    /\ call = NoCall
    /\ tally = NoTally
    /\ PidIdle

NextQueue ==
    \/ \E name \in QueueProcs : RpcAdd(name)
    \/ \E idx \in EndIdxArgs : RpcUp(idx)
    \/ \E idx \in EndIdxArgs : RpcDown(idx)
    \/ RpcClear
    \/ DispatchSeqEnabled

SpecQueue == InitQueue /\ [][NextQueue]_vars

\* the sequencer runs a queue the operator has filled and leaves alone: up
\* to MaxQueue entries, the cursor at 0, _nloops up to MaxLoops
InitLoops ==
    /\ seqEnabled = FALSE
    /\ seqDryRun = FALSE
    /\ \E n \in 0..MaxQueue : \E names \in [1..n -> QueueProcs] :
          /\ functions = [i \in 1..QUEUE_MAX_LEN |-> IF i <= n THEN names[i] ELSE ""]
          /\ inputs = [i \in 1..QUEUE_MAX_LEN |->
                          IF i <= n
                          THEN JoinPars(ParNames(names[i]), DefaultPar(names[i]), 1)
                          ELSE <<>>]
          /\ queueLength = n
    /\ current = 0
    /\ scriptIsRunning = FALSE
    /\ nloops \in 0..MaxLoops
    /\ pEnabled = [p \in AllProcs |-> FALSE]
    /\ pDryRun = [p \in AllProcs |-> FALSE]
    /\ pExitErr = [p \in AllProcs |-> FALSE]
    /\ pPar = [p \in AllProcs |-> DefaultPar(p)]
    /\ settingsEnabled = [p \in AllProcs |-> FALSE]
    /\ runState = [p \in AllProcs |-> None]
    /\ hotlinks = <<>>
    /\ stack = <<>>
    /\ last = NoAct
    /\ event = NoEvent
    /\ call = NoCall
    /\ tally = [NoTally EXCEPT !.on = TRUE]
    /\ PidIdle

NextLoops ==
    \/ OpEnable(TRUE)
    \/ DispatchSeqEnabled
    \/ DispatchSeqScriptIsRunning
    \/ DispatchProcEnabled
    \/ Resume

SpecLoops == InitLoops /\ [][NextLoops]_vars

\* exit() called on procedure objects in every run_state
RunStates == {None, "circulating", "startup"}

InitExit ==
    /\ seqEnabled = FALSE
    /\ seqDryRun = FALSE
    /\ functions = Fill(QUEUE_MAX_LEN, "")
    /\ inputs = Fill(QUEUE_MAX_LEN, <<>>)
    /\ current = -1
    /\ scriptIsRunning = FALSE
    /\ queueLength = 0
    /\ nloops = 0
    /\ pEnabled = [p \in AllProcs |-> FALSE]
    /\ pDryRun = [p \in AllProcs |-> FALSE]
    /\ pExitErr = [p \in AllProcs |-> FALSE]
    /\ pPar = [p \in AllProcs |-> DefaultPar(p)]
    /\ settingsEnabled = [p \in AllProcs |-> FALSE]
    /\ runState \in [AllProcs -> RunStates]
    /\ hotlinks = <<>>
    /\ stack = <<>>
    /\ last = NoAct
    /\ event = NoEvent
    /\ call = NoCall
    /\ tally = NoTally
    /\ PidIdle

NextExit == \E p \in AllProcs : CallExit(p)

SpecExit == InitExit /\ [][NextExit]_vars

TypeOK ==
    /\ current \in -2..QUEUE_MAX_LEN
    /\ queueLength \in 0..QUEUE_MAX_LEN
    /\ Len(functions) = Len(inputs)
    /\ Len(hotlinks) <= MaxHotlinks
    /\ Len(stack) <= MaxDepth

(* ------------------------------- claims -------------------------------- *)
\* C1: every activation of a procedure ends with the procedure's Enabled
\* cleared and the sequencer's _script_is_running false, whatever
\* check_status(), run() or exit() raised.
C1_ActivationEndsCleared ==
    last.proc # "" => (~ pEnabled[last.proc] /\ ~ scriptIsRunning)

C3_ExitExactlyOnce ==
    (last.proc # "" /\ last.exc /\ last.armed) => last.nexit = 1

\* C4: exit() called while run_state is None issues no device command and
\* returns without raising, on the first call and on a repeated call.
C4_NullExitIsNoop ==
    (call.proc # "" /\ call.rs = None) => (~ call.raised /\ ~ call.acted)

\* the procedures that are running: Enabled is true, or run() is in progress
Running == {p \in AllProcs : pEnabled[p] \/ \E i \in 1..Len(stack) : stack[i].proc = p}

\* C5: at most one procedure is running at any time.
C5_AtMostOneRunning == Cardinality(Running) <= 1

\* the queue holds two different procedures A, B and no loops are asked for
TwoQueued ==
    /\ queueLength = 2
    /\ functions[1] \in QueueProcs /\ functions[2] \in QueueProcs
    /\ functions[1] # functions[2]
    /\ nloops = 0

\* the parameters of p have the values the parameter string of slot i names
StartedWith(p, i) ==
    LET w == ParseInputs(inputs[i]).writes
    IN /\ pEnabled'[p]
       /\ \A k \in 1..Len(w) : pPar'[p][w[k][1][1]] = w[k][2][1]

\* C6: with the queue [A, B] and no loops, enabling the sequencer starts A
\* with A's parameters; A's completion without error moves the cursor on and
\* starts B with B's parameters; B's completion disables the sequencer and
\* resets the cursor.
C6_QueueChaining ==
    [][/\ (DispatchSeqEnabled /\ seqEnabled /\ TwoQueued /\ current \in {-1, 0})
            => StartedWith(functions[1], 1)
       /\ (DispatchSeqScriptIsRunning /\ ~ scriptIsRunning /\ seqEnabled /\ TwoQueued
             /\ current = 0 /\ ~ pExitErr[functions[1]])
            => (current' = 1 /\ StartedWith(functions[2], 2))
       /\ (DispatchSeqScriptIsRunning /\ ~ scriptIsRunning /\ seqEnabled /\ TwoQueued
             /\ current = 1 /\ ~ pExitErr[functions[2]])
            => (~ seqEnabled' /\ current' = 0)]_vars

\* the completion of the procedure at the cursor is delivered to the
\* sequencer while the _exit_with_error of that procedure is true
ErrorCompletion ==
    /\ DispatchSeqScriptIsRunning
    /\ ~ scriptIsRunning
    /\ InRange(functions, current)
    /\ Registered(PyGet(functions, current))
    /\ pExitErr[PyGet(functions, current)]

\* C7: when the procedure at the cursor signals completion with its
\* _exit_with_error true, the sequencer's Enabled is false afterwards, the
\* cursor is unchanged and no procedure is started (no Enabled, parameter or
\* _script_is_running is written).
C7_ErrorStopsQueue ==
    [][ErrorCompletion =>
          /\ ~ seqEnabled'
          /\ UNCHANGED <<current, pEnabled, pPar, pDryRun, scriptIsRunning, nloops>>]_vars

C7_Witness ==
    /\ event = "error_stop"
    /\ ~ seqEnabled
    /\ pExitErr[PyGet(functions, current)]

\* C8: queue_remove(idx) of a slot before the cursor lowers the cursor by
\* exactly one, and the name and parameter string at the cursor afterwards
\* are those at the cursor before; of a slot behind the cursor it leaves the
\* cursor as it is.
C8_RemoveKeepsCursorEntry ==
    [][\A idx \in IdxArgs : RpcRemove(idx) =>
          /\ idx < current =>
                /\ current' = current - 1
                /\ PyGet(functions', current') = PyGet(functions, current)
                /\ PyGet(inputs', current') = PyGet(inputs, current)
          /\ idx > current => current' = current]_vars

C8_Witness ==
    /\ event = "remove_before"
    /\ current >= 0
    /\ PyGet(functions, current) \in QueueProcs

\* C9: the cursor is -1 or the index of an entry of the queue.
C9_CursorValid ==
    current = -1 \/ (0 <= current /\ current < queueLength)

\* C10: while the sequencer is enabled, queue_remove(idx) with idx the cursor
\* leaves the names, the parameter strings, the queue length and the cursor
\* unchanged.
C10_RemoveAtCursorRejected ==
    [][\A idx \in IdxArgs : (RpcRemove(idx) /\ seqEnabled /\ idx = current) =>
          UNCHANGED <<functions, inputs, queueLength, current>>]_vars

C10_Witness ==
    /\ event = "remove_rejected"
    /\ seqEnabled
    /\ PyGet(functions, current) \in QueueProcs

\* the slots idx and j (0-based) exchanged their name and parameter string and
\* every other slot kept its own
SlotsSwapped(idx, j) ==
    /\ Len(functions') = Len(functions) /\ Len(inputs') = Len(inputs)
    /\ functions'[idx + 1] = functions[j + 1] /\ functions'[j + 1] = functions[idx + 1]
    /\ inputs'[idx + 1] = inputs[j + 1] /\ inputs'[j + 1] = inputs[idx + 1]
    /\ \A k \in 1..Len(functions) : (k # idx + 1 /\ k # j + 1) =>
            (functions'[k] = functions[k] /\ inputs'[k] = inputs[k])

\* the cursor follows its entry over the exchange of the slots idx and j
CursorFollows(idx, j) ==
    /\ current' = (IF current = idx THEN j ELSE IF current = j THEN idx ELSE current)
    /\ (0 <= current /\ current < Len(functions)) =>
            /\ functions'[current' + 1] = functions[current + 1]
            /\ inputs'[current' + 1] = inputs[current + 1]

\* C11: queue_up(idx) and queue_down(idx), idx the index of an entry, exchange
\* the entry at idx with its neighbour, name and parameter string together,
\* and the entry at the cursor afterwards is the entry that was at the cursor
\* before: the cursor moves with its entry when its slot is one of the two,
\* and stays otherwise; up(0) and down(last) change nothing.
C11_MoveKeepsCursorEntry ==
    [][\A idx \in EndIdxArgs :
          /\ RpcUp(idx) =>
                IF idx = 0 THEN UNCHANGED <<functions, inputs, current, queueLength>>
                ELSE SlotsSwapped(idx, idx - 1) /\ CursorFollows(idx, idx - 1)
          /\ RpcDown(idx) =>
                IF idx = queueLength - 1
                THEN UNCHANGED <<functions, inputs, current, queueLength>>
                ELSE SlotsSwapped(idx, idx + 1) /\ CursorFollows(idx, idx + 1)]_vars

\* the cursor is past slot 0 on an entry, next to a different entry: while
\* the sequencer is stopped the cursor gets past 0 only by following its entry
\* in queue_down or queue_up
C11_Witness ==
    /\ current = 1
    /\ queueLength = 2
    /\ functions[1] \in QueueProcs /\ functions[2] \in QueueProcs
    /\ functions[1] # functions[2]

\* C12: in a run the sequencer starts at rest from cursor 0 with _nloops = N on
\* a queue of L >= 1 entries, and while no procedure exits with an error, the k-th
\* call of start_script gets the index (k-1) mod L: the entries in index order,
\* pass after pass; the cursor is the index started last and _nloops is N less
\* the wraps so far; the wrap that finds _nloops at zero stops the run with
\* Enabled false, the cursor at 0 and exactly (N+1)*L entries started.
C12_LoopPasses ==
    /\ [](   (tally.on /\ tally.rest /\ tally.c0 = 0 /\ queueLength >= 1
              /\ tally.how \in {"running", "wrap_stop"})
          => LET L == queueLength
                 k == Len(tally.starts)
             IN /\ k >= 1
                /\ \A i \in 1..k : tally.starts[i] = (i - 1) % L
                /\ tally.how = "running" =>
                        /\ current = (k - 1) % L
                        /\ nloops = tally.n0 - ((k - 1) \div L)
                /\ tally.how = "wrap_stop" =>
                        /\ k = (tally.n0 + 1) * L
                        /\ current = 0
                        /\ nloops = 0)
    /\ [][(tally.on /\ tally.rest /\ tally.how = "running" /\ tally'.how = "wrap_stop")
            => ~ seqEnabled']_vars

\* a run with one loop over two entries has stopped at its second wrap
C12_Witness ==
    /\ tally.on /\ tally.rest /\ tally.c0 = 0 /\ tally.n0 = 1
    /\ queueLength = 2
    /\ tally.how = "wrap_stop"
    /\ tally.starts = <<0, 1, 0, 1>>
    /\ ~ seqEnabled

\* C13: with _nloops at its default value, never written, the completion
\* without error of the last entry restarts the entry at index 0 and leaves the
\* sequencer enabled.
C13_DefaultLoopsForever ==
    [][(/\ DispatchSeqScriptIsRunning
        /\ completion_seen
        /\ ~ pExitErr[PyGet(functions, current)]
        /\ queueLength >= 1 /\ current = queueLength - 1
        /\ nloops = 0)
          => (seqEnabled' /\ current' = 0 /\ pEnabled'[functions[1]] /\ scriptIsRunning')]_vars

\* C14: the delivery of Enabled = true while the queue length is 0 sets the
\* sequencer's Enabled back to false and writes no procedure's parameters,
\* dry_run or Enabled, nor _script_is_running.
C14_EmptyQueueEnable ==
    [][(DispatchSeqEnabled /\ seqEnabled /\ queueLength = 0)
          => (~ seqEnabled' /\ UNCHANGED <<pEnabled, pPar, pDryRun, scriptIsRunning>>)]_vars

C14_Witness ==
    /\ tally.on /\ tally.how = "empty"
    /\ queueLength = 0
    /\ ~ seqEnabled
    /\ \A p \in AllProcs : ~ pEnabled[p]

\* C15: the queue length never exceeds QUEUE_MAX_LEN and no name or parameter
\* string is stored in a slot of index QUEUE_MAX_LEN or more.
C15_QueueBounded ==
    /\ queueLength <= QUEUE_MAX_LEN
    /\ Len(functions) <= QUEUE_MAX_LEN
    /\ Len(inputs) <= QUEUE_MAX_LEN

(* ====================================================================== *)
(* The PID frontend (src/pid, src/PIDCtrlEquipment.py): one control loop,  *)
(* an equipment whose readout_func the frontend calls once per period.     *)
(*                                                                         *)
(* The loop is one of four classes: PIDControllerBase,                     *)
(* PIDControllerBase_ZeroOnDisable, PIDControllerBase_ZeroOnDisable_Panic  *)
(* and PIDCtrl_HTR204_PT206.  PIDCtrl_HTR204_PT206 reads target_last,      *)
(* t_target_last and target_timeout_s, which src/pid/PIDControllerBase.py  *)
(* gives it: that file is taken as its base class.                         *)
(* PIDControllerBase_ZeroOnDisable_Panic calls ensure_set(), which its     *)
(* classes do not define; the ensure_set() of PIDCtrl_HTR204_PT206 is      *)
(* taken for it.                                                           *)
(*                                                                         *)
(* Environment:                                                            *)
(*  - time.time() is a clock in whole seconds; the frontend calls          *)
(*    readout_func one period after the start of the previous call;        *)
(*  - a put() on the actuator takes effect at once, so that ensure_set()   *)
(*    ends after one round (one sleep of a second and one put) unless the  *)
(*    actuator is within 1 of the value already;                           *)
(*  - self.pid(target_val) returns some value within the output limits;    *)
(*  - the target reading and the device states are what the plant shows    *)
(*    when readout_func is called: inputs of the call;                     *)
(*  - the operator writes Enabled and an outside agent writes the          *)
(*    actuator between calls;                                              *)
(*  - callback_main receives the value Enabled holds when it is delivered, *)
(*    as the handlers of the scripting frontend do.                        *)
(* ====================================================================== *)

(* ------------------------------ bounds -------------------------------- *)
\* readout_func is followed up to this many seconds after the start
MaxTime == 46

(* --------------------------- program constants ------------------------ *)
\* np.nan in last_setpoint and in the model's unset last_output: actuator
\* values are never negative
NaN == -1
\* default_common.period_ms, in seconds
period_s == 5
\* time.time() when the frontend starts: any value larger than time_step_s
Epoch == 100
\* DEFAULT_SETTINGS of the control loops
time_step_s == 10
TimeoutVals == {0, 30}
\* pt206_pressure_high_thresh of PIDCtrl_HTR204_PT206
panic_thresh == 1480
\* seconds a loop in panic waits before it resumes
panic_wait_s == 30

Variants == {"PIDControllerBase", "ZeroOnDisable", "ZeroOnDisable_Panic", "HTR204_PT206"}
PanicVariants == {"ZeroOnDisable_Panic", "HTR204_PT206"}
\* readings of the target: two below the threshold, one above
TargetVals == {1400, 1401, 1490}
\* what the PID computes, and what an outside agent sets the actuator to
PidOutputs == {50}
ExternalVals == {80}

isnan(x) == x = NaN
abs(x) == IF x < 0 THEN 0 - x ELSE x
\* last_output*0.8 (exact on the multiples of 5 the model reaches)
Restored_mut(v) == v
Restored(v) == (v * 8) \div 10

\* the loop after __init__: Enabled false, last_setpoint read from the actuator
\* by reset_pid(), t0 = 0, the target reading and its time remembered.
\* now: time.time(); t_call: when readout_func was called last;
\* hot: the number of writes of Enabled whose callback_main is to come.
\* History: step is "tick" after a call of readout_func; writes and alarms are
\* the put()s on the actuator, each with the statement it came from, and the
\* alarms raised, in that call; entered is the time t1 of the call in which the
\* loop set panic_state last.
PidNew(v, timeout) ==
    [variant |-> v, Enabled |-> FALSE, hot |-> 0,
     ctrl |-> 0, fpv201_pos |-> 0,
     last_setpoint |-> 0, target_last |-> 1400, t_target_last |-> Epoch,
     t0 |-> 0, now |-> Epoch, t_call |-> Epoch, target_timeout_s |-> timeout,
     panic_state |-> FALSE, t_panic |-> 0, last_output |-> NaN, fpv201_setpt |-> 0,
     step |-> "init", writes |-> <<>>, alarms |-> <<>>, entered |-> 0]

\* self.pv['ctrl'].put(v)
Put(s, kind, v) == [s EXCEPT !.ctrl = v, !.writes = Append(@, <<kind, v>>)]

trigger_internal_alarm(s, what) == [s EXCEPT !.alarms = Append(@, what)]

ensure_set(s, val) ==
    IF abs(s.ctrl - val) > 1
    THEN [Put(s, "zero", val) EXCEPT !.now = @ + 1]
    ELSE s

\* PIDControllerBase.disable
base_disable(s) ==
    [s EXCEPT !.Enabled = FALSE, !.hot = @ + 1, !.last_setpoint = NaN]

\* disable() of the loop's class
disable(s) ==
    CASE s.variant = "PIDControllerBase" -> base_disable(s)
      [] s.variant \in {"ZeroOnDisable", "ZeroOnDisable_Panic"} ->
            base_disable(Put(s, "zero", 0))
      [] s.variant = "HTR204_PT206" -> base_disable(ensure_set(s, 0))

check_device_states_mut(s, ok) == IF ok THEN s ELSE disable(s)
\* check_device_states(): ok is its result
check_device_states(s, ok) ==
    IF ok THEN s ELSE trigger_internal_alarm(disable(s), "device")

drifted_mut(s) == ~ isnan(s.last_setpoint) /\ abs(s.ctrl - s.last_setpoint) > 100
\* the actuator is not where the loop left it
drifted(s) == ~ isnan(s.last_setpoint) /\ abs(s.ctrl - s.last_setpoint) > 1

target_stale_mut(s, t1) == s.target_timeout_s > 0 /\ FALSE
target_stale(s, t1) ==
    s.target_timeout_s > 0 /\ t1 - s.t_target_last > s.target_timeout_s

\* the target is updating, or has not been updated past the timeout
check_target(s, t1, target_val) ==
    IF s.target_last # target_val
    THEN [s EXCEPT !.target_last = target_val, !.t_target_last = t1]
    ELSE IF target_stale(s, t1)
    THEN disable(trigger_internal_alarm(s, "timeout"))
    ELSE s

cooled_mut(s, t1) == s.panic_state
cooled(s, t1) == s.panic_state /\ (t1 - s.t_panic) > panic_wait_s

\* check if panic state
check_panic(s, t1, target_val) ==
    IF target_val > panic_thresh
    THEN IF ~ s.panic_state
         THEN LET a == IF s.variant = "HTR204_PT206"
                       THEN [s EXCEPT !.fpv201_setpt = s.fpv201_pos, !.fpv201_pos = 100]
                       ELSE s
                  b == ensure_set([a EXCEPT !.last_output = s.ctrl], 0)
              IN [b EXCEPT !.last_setpoint = NaN, !.t_panic = b.now, !.panic_state = TRUE,
                           !.entered = t1]
         ELSE s
    ELSE IF cooled(s, t1)
    THEN LET a == IF s.variant = "HTR204_PT206"
                  THEN [s EXCEPT !.fpv201_pos = s.fpv201_setpt]
                  ELSE s
         IN [Put(a, "restore", Restored(s.last_output))
                EXCEPT !.last_setpoint = Restored(s.last_output), !.panic_state = FALSE]
    ELSE s

control_due_mut(s, t1) == t1 - s.t0 >= time_step_s
control_due(s, t1) ==
    /\ t1 - s.t0 >= time_step_s
    /\ s.variant \in PanicVariants => ~ s.panic_state

\* new control value
new_control_value(s, t1, val) ==
    IF control_due(s, t1)
    THEN [Put(s, "pid", val) EXCEPT !.t0 = t1, !.last_setpoint = val]
    ELSE s

\* readout_func from "get time" on
timed_part(s, val, target_val) ==
    LET t1 == s.now
        a == check_target(s, t1, target_val)
        b == IF s.variant \in PanicVariants THEN check_panic(a, t1, target_val) ELSE a
    IN new_control_value(b, t1, val)

\* readout_func of the loop's class.  target_val: what the target reads;
\* ok: whether the devices are in order; val: what self.pid() would return
readout_func(s, val, target_val, ok) ==
    IF ~ s.Enabled THEN s
    ELSE CASE s.variant = "PIDControllerBase" ->
                IF ~ ok THEN check_device_states(s, ok)
                ELSE IF drifted(s) THEN disable(trigger_internal_alarm(s, "mismatch"))
                ELSE timed_part(s, val, target_val)
           [] s.variant = "ZeroOnDisable" ->
                IF ~ ok THEN disable(check_device_states(s, ok))
                ELSE IF drifted(s) THEN disable(trigger_internal_alarm(s, "mismatch"))
                ELSE timed_part(s, val, target_val)
           [] s.variant = "ZeroOnDisable_Panic" ->
                IF ~ s.panic_state /\ ~ ok
                THEN [ensure_set(check_device_states(s, ok), 0) EXCEPT !.last_setpoint = NaN]
                ELSE IF drifted(s) THEN disable(trigger_internal_alarm(s, "mismatch"))
                ELSE timed_part(s, val, target_val)
           [] s.variant = "HTR204_PT206" ->
                IF ~ s.panic_state /\ ~ ok
                THEN [ensure_set(check_device_states(s, ok), 0) EXCEPT !.last_setpoint = NaN]
                ELSE IF drifted(s)
                THEN disable(trigger_internal_alarm(ensure_set(s, 0), "mismatch"))
                ELSE timed_part(s, val, target_val)

\* what is not the control loop's stays as it is
SeqFrame == <<seqVars, procVars, hotlinks, stack, last, event, call, tally, dev, wt, cfg, ens, scr>>
Quiet(s, what) == [s EXCEPT !.step = what, !.writes = <<>>, !.alarms = <<>>]

\* the frontend calls readout_func, d seconds after it called it last
PidTick(d, val, target_val, ok) ==
    /\ pid.t_call + d <= Epoch + MaxTime
    /\ pid.now <= pid.t_call + d
    /\ pid' = readout_func(Quiet([pid EXCEPT !.now = pid.t_call + d,
                                              !.t_call = pid.t_call + d],
                                  "tick"), val, target_val, ok)
    /\ UNCHANGED SeqFrame

\* callback_main is delivered for a write of Enabled
PidCallbackMain ==
    /\ pid.hot > 0
    /\ pid' = [Quiet(pid, "other") EXCEPT
                  !.hot = @ - 1,
                  !.last_setpoint = IF pid.Enabled THEN pid.ctrl ELSE NaN]
    /\ UNCHANGED SeqFrame

\* the operator writes Enabled
PidOperatorSet(b) ==
    /\ pid.hot < MaxPending
    /\ pid' = [Quiet(pid, "other") EXCEPT !.Enabled = b, !.hot = @ + 1]
    /\ UNCHANGED SeqFrame

ActuatorSetExternally(v) ==
    /\ v # pid.ctrl
    /\ pid' = [Quiet(pid, "other") EXCEPT !.ctrl = v]
    /\ UNCHANGED SeqFrame

InitPid ==
    /\ seqEnabled = FALSE
    /\ seqDryRun = FALSE
    /\ functions = Fill(QUEUE_MAX_LEN, "")
    /\ inputs = Fill(QUEUE_MAX_LEN, <<>>)
    /\ current = -1
    /\ scriptIsRunning = FALSE
    /\ queueLength = 0
    /\ nloops = 0
    /\ pEnabled = [p \in AllProcs |-> FALSE]
    /\ pDryRun = [p \in AllProcs |-> FALSE]
    /\ pExitErr = [p \in AllProcs |-> FALSE]
    /\ pPar = [p \in AllProcs |-> DefaultPar(p)]
    /\ settingsEnabled = [p \in AllProcs |-> FALSE]
    /\ runState = [p \in AllProcs |-> None]
    /\ hotlinks = <<>>
    /\ stack = <<>>
    /\ last = NoAct
    /\ event = NoEvent
    /\ call = NoCall
    /\ tally = NoTally
    /\ \E v \in Variants : \E timeout \in TimeoutVals : pid = PidNew(v, timeout)
    /\ dev = 0 /\ wt = 0 /\ cfg = 0 /\ ens = 0 /\ scr = 0

NextPid ==
    \/ \E val \in PidOutputs : \E target_val \in TargetVals : \E ok \in BOOLEAN :
          PidTick(period_s, val, target_val, ok)
    \/ PidCallbackMain
    \/ \E b \in BOOLEAN : PidOperatorSet(b)
    \/ \E v \in ExternalVals : ActuatorSetExternally(v)

SpecPid == InitPid /\ [][NextPid]_vars

(* ------------------------------ claims --------------------------------- *)
\* the step is a call of readout_func that finds the loop enabled and gets
\* past the device check and the comparison of the actuator with
\* last_setpoint: it reads the target, and target_last is the reading after it
CallGetsToTarget ==
    pid'.step = "tick" /\ pid.Enabled /\ pid'.alarms \in {<<>>, <<"timeout">>}

HasWrite(s, kind) == \E i \in 1..Len(s.writes) : s.writes[i][1] = kind

CountAlarms(s, what) == Cardinality({i \in 1..Len(s.alarms) : s.alarms[i] = what})

\* C18: a call of readout_func that finds the loop enabled, gets to the target
\* and reads the value it read last, more than target_timeout_s > 0 seconds
\* after that value appeared, sets Enabled to false and raises the staleness
\* alarm once; the calls that follow find Enabled false and raise no alarm
\* for as long as nobody enables the loop; with target_timeout_s = 0 the
\* staleness alarm is never raised.
C18_StaleTargetOnce ==
    [][/\ (/\ CallGetsToTarget
           /\ pid'.target_last = pid.target_last
           /\ pid.target_timeout_s > 0
           /\ pid'.t_call - pid.t_target_last > pid.target_timeout_s)
          => /\ ~ pid'.Enabled
             /\ CountAlarms(pid', "timeout") = 1
       /\ (pid'.step = "tick" /\ ~ pid.Enabled)
          => (pid'.alarms = <<>> /\ ~ pid'.Enabled)
       /\ pid.target_timeout_s = 0 => CountAlarms(pid', "timeout") = 0]_vars

\* the plain loop has just disabled itself over a target that stood still
C18_Witness ==
    /\ pid.variant = "PIDControllerBase"
    /\ pid.step = "tick"
    /\ pid.target_timeout_s > 0
    /\ pid.alarms = <<"timeout">>
    /\ ~ pid.Enabled
    /\ pid.t_call - pid.t_target_last > pid.target_timeout_s

\* C19: a call of readout_func of a panic-capable loop that ends with
\* panic_state set puts no PID output on the actuator: whatever it puts there
\* is the value zero; and the call that ends the panic puts nothing but zero
\* there before it puts the restored fraction of the saved output.
C19_NoControlInPanic ==
    [][(pid.variant \in PanicVariants /\ pid'.step = "tick")
         => /\ pid'.panic_state
                 => \A i \in 1..Len(pid'.writes) : pid'.writes[i] = <<"zero", 0>>
            /\ (pid.panic_state /\ ~ pid'.panic_state)
                 => \E j \in 1..Len(pid'.writes) :
                       /\ pid'.writes[j] = <<"restore", Restored(pid.last_output)>>
                       /\ \A i \in 1..(j - 1) : pid'.writes[i] = <<"zero", 0>>]_vars

\* an enabled loop is in panic after a call, later than the one in which it
\* entered, at which a control value was due
C19_Witness ==
    /\ pid.variant \in PanicVariants
    /\ pid.step = "tick" /\ pid.Enabled
    /\ pid.panic_state
    /\ pid.t_call > pid.entered
    /\ pid.t_call - pid.t0 >= time_step_s
    /\ pid.writes = <<>>

\* the classes whose disable() sets the actuator to zero
ZeroVariants == {"ZeroOnDisable", "ZeroOnDisable_Panic", "HTR204_PT206"}

\* C20: after a call of readout_func in which a zero-on-disable loop has
\* disabled itself (device check failed, actuator moved, or target stale) the
\* actuator is at zero and the call has put no PID output and no restored
\* output on it.
C20_ZeroWhenSelfDisabled ==
    (/\ pid.variant \in ZeroVariants
     /\ pid.step = "tick"
     /\ ~ pid.Enabled
     /\ pid.alarms # <<>>)
       => /\ pid.ctrl = 0
          /\ ~ HasWrite(pid, "pid")
          /\ ~ HasWrite(pid, "restore")

(* ======================= src/scripts/EpicsDevice.py ===================== *)
(* One device of the collection a procedure commands, and the settings-store
   command set_odb of the procedure.

   The environment assumed here:
     - an operation runs from one time.sleep() to the next in one step; the
       process variables keep the values they had at the start of the step;
     - the hardware changes its status variables and the setpoint variable
       between the steps, whatever was written: a put() is recorded, its
       effect is the hardware's;
     - odb_set takes effect at once; another client may overwrite the setting
       while set_odb sleeps;
     - time is in whole seconds, time.sleep(n) lasts n seconds, and the time
       since t0 is followed up to MaxElapsed seconds, more than every delay
       it is compared with;
     - dry_run and timeout are those the collection was built with; the
       procedure reads the same values.                                      *)

\* the longest time since t0 that is told apart (seconds)
MaxElapsed == 4

reset_check_delay == 2
\* timeout_s of the procedure: no timeout, and a timeout that elapses
DevTimeoutVals == {0, 2}
\* the control limits the setpoint variable reports
lower_ctrl_limit == 0
upper_ctrl_limit == 10
\* the setpoints asked for, and the values the setpoint variable may hold
SetVals == {5, 20}
PvVals == {0, 5}
OdbVals == {0, 1}

DevClasses == {"EpicsAV", "EpicsAVNormOpen", "EpicsHTR", "EpicsTP"}
sleep_time(cls) == IF cls = "EpicsTP" THEN 3 ELSE 1
setpoint_name(cls) == IF cls = "EpicsHTR" THEN "CUR" ELSE None

SwitchOps == {"on", "off", "open", "close"}
\* the operations a class defines, and set_odb of the procedure
DevOps(cls) ==
    {"on", "off", "reset", "set", "set_odb"}
    \cup (IF cls \in {"EpicsAV", "EpicsAVNormOpen"} THEN {"open", "close"} ELSE {})
    \cup (IF cls = "EpicsHTR" THEN {"enable_auto", "disable_auto"} ELSE {})
    \cup (IF cls = "EpicsTP" THEN {"low"} ELSE {})
DevArgs(op) == IF op = "set" THEN SetVals ELSE IF op = "set_odb" THEN OdbVals ELSE {0}

DevNew(cls, dry, timeout) ==
    [cls |-> cls, dry_run |-> dry, timeout |-> timeout,
     STATON |-> FALSE, STATTMO |-> FALSE, STATINT |-> TRUE, STATBYP |-> FALSE,
     STAT_B8 |-> FALSE, STATLSPD |-> FALSE, STATPTMO |-> FALSE, STATFLT |-> FALSE,
     val |-> 0, odb |-> 0,
     \* the operation under way, its argument, where it sleeps
     op |-> "", arg |-> 0, pc |-> "idle", nattempts |-> 0, el |-> 0,
     \* history: the variables written by the operation, how it ended, the last
     \* step; beat flips whenever time.sleep returns
     puts |-> {}, res |-> "", step |-> "", beat |-> FALSE]

is_interlocked(d) == ~ d.STATINT
is_bypassed(d) == d.STATBYP
is_timeout(d) == d.STATTMO

put(d, name) == [d EXCEPT !.puts = @ \cup {name}]
\* return, or raise
finish(d, how) == [d EXCEPT !.pc = "idle", !.res = how]
\* time.sleep(self.sleep_time)
sleep(d, pc) == [d EXCEPT !.pc = pc]
slept(d) ==
    LET t == d.el + sleep_time(d.cls)
    IN [d EXCEPT !.el = IF t > MaxElapsed THEN MaxElapsed ELSE t, !.beat = ~ @]

\* reset()
reset_mut(d) == put(d, "RST")
reset(d) == IF ~ d.dry_run THEN put(d, "RST") ELSE d

switch_on_mut(d) == d.op \in {"on", "open"}
\* _switch(on): the value of on for the call
switch_on(d) ==
    IF d.cls = "EpicsAVNormOpen" THEN d.op \in {"on", "close"} ELSE d.op \in {"on", "open"}
\* getattr(self, attr) of _switch: is_off or is_on, is_closed or is_open
switch_attr(d) ==
    IF d.cls = "EpicsAVNormOpen"
    THEN (IF switch_on(d) THEN d.STATON ELSE ~ d.STATON)
    ELSE (IF switch_on(d) THEN ~ d.STATON ELSE d.STATON)

\* the test of the while loop of the operation
pending(d) ==
    CASE d.op \in SwitchOps -> switch_attr(d)
      [] d.op = "set" -> d.val # d.arg
      [] d.op = "enable_auto" -> ~ d.STAT_B8
      [] d.op = "disable_auto" -> d.STAT_B8
      [] d.op = "low" -> d.STATLSPD # (d.arg = 1)
      [] d.op = "set_odb" -> d.odb # d.arg
\* the variable the loop writes
suffix(d) ==
    CASE d.op \in SwitchOps -> IF switch_on(d) THEN "DRVON" ELSE "DRVOFF"
      [] d.op = "set" -> setpoint_name(d.cls)
      [] d.op \in {"enable_auto", "disable_auto"} -> "CMD"
      [] d.op = "low" -> "DRVLSPD"
      [] d.op = "set_odb" -> "odb"

\* "(self.timeout > 0) and (time.time()-t0 > self.timeout)"; set_odb has no
\* test of timeout > 0
timed_out(d) ==
    IF d.op = "set_odb" THEN d.el > d.timeout
    ELSE d.timeout > 0 /\ d.el > d.timeout

\* one pass of the while loop of _switch, set, enable_auto, disable_auto, low
\* and set_odb, from its test to time.sleep; the message of set_odb's
\* TimeoutError reads the undefined name client
loop(d) ==
    IF ~ pending(d) THEN finish(d, "returned")
    ELSE IF timed_out(d)
    THEN finish(d, IF d.op = "set_odb" THEN "NameError" ELSE "TimeoutError")
    ELSE IF d.op = "set_odb" THEN sleep([put(d, "odb") EXCEPT !.odb = d.arg], "loop")
    ELSE IF d.dry_run THEN finish(d, "returned")
    ELSE sleep(put(d, suffix(d)), "loop")

\* what follows self.healthcheck() in the operation
body(d) ==
    LET b == [d EXCEPT !.el = 0] IN
    CASE d.op = "set" ->
            IF d.arg < lower_ctrl_limit \/ d.arg > upper_ctrl_limit
            THEN finish(d, "RuntimeError: out of bounds")
            ELSE loop(b)
      [] d.op = "low" -> loop([b EXCEPT !.arg = IF d.STATLSPD THEN 0 ELSE 1])
      [] OTHER -> loop(b)

\* EpicsTP.healthcheck after super().healthcheck()
healthcheck_end(d) ==
    IF d.cls = "EpicsTP" /\ d.STATPTMO THEN finish(d, "EpicsTimeoutError")
    ELSE IF d.cls = "EpicsTP" /\ d.STATFLT THEN finish(d, "EpicsError")
    ELSE body(d)

\* "(time.time()-t0 < self.reset_check_delay) or (nattempts == 0)"
reset_due(d) == d.el < reset_check_delay \/ d.nattempts = 0

\* one pass of "while self.is_timeout", the flag being set
healthcheck_loop(d) ==
    IF reset_due(d)
    THEN IF d.nattempts > 1 THEN finish(d, "EpicsTimeoutError")
         ELSE sleep([reset(d) EXCEPT !.nattempts = @ + 1, !.el = 0], "healthcheck")
    ELSE sleep(d, "healthcheck")

\* "self.is_interlocked and not self.is_bypassed", "if not self.dry_run"
interlock_raises_mut(d) == is_interlocked(d) /\ ~ d.dry_run
interlock_raises(d) == is_interlocked(d) /\ ~ is_bypassed(d) /\ ~ d.dry_run

\* healthcheck() up to its first time.sleep
healthcheck(d) ==
    IF interlock_raises(d) THEN finish(d, "EpicsInterlockError")
    ELSE IF is_timeout(d) THEN healthcheck_loop([d EXCEPT !.nattempts = 0, !.el = 0])
    ELSE healthcheck_end(d)

\* the operation from its call to its first time.sleep, or to its end
operation(d) ==
    CASE d.op = "reset" -> finish(reset(d), "returned")
      [] d.op = "set_odb" -> IF d.dry_run THEN finish(d, "returned") ELSE loop(d)
      [] d.op = "set" /\ setpoint_name(d.cls) = None -> finish(d, "RuntimeError: no setpoint key")
      [] OTHER -> healthcheck(d)

\* what is not the device's stays as it is
DevFrame == <<seqVars, procVars, hotlinks, stack, last, event, call, tally, pid, wt, cfg, ens, scr>>

\* the procedure calls an operation of the device, or set_odb
DevCall(op, arg) ==
    /\ dev.pc = "idle"
    /\ op \in DevOps(dev.cls)
    /\ arg \in DevArgs(op)
    /\ dev' = operation([dev EXCEPT !.op = op, !.arg = arg, !.nattempts = 0, !.el = 0,
                                    !.puts = {}, !.res = "", !.step = "call"])
    /\ UNCHANGED DevFrame

\* time.sleep returns
DevResume ==
    /\ dev.pc # "idle"
    /\ LET d == slept([dev EXCEPT !.step = "resume"])
       IN dev' = IF dev.pc = "loop" THEN loop(d)
                 ELSE IF is_timeout(d) THEN healthcheck_loop(d)
                 ELSE healthcheck_end(d)
    /\ UNCHANGED DevFrame

\* the status variables of the class
DevFlags(cls) ==
    {"STATON", "STATTMO", "STATINT", "STATBYP"}
    \cup (IF cls = "EpicsHTR" THEN {"STAT_B8"} ELSE {})
    \cup (IF cls = "EpicsTP" THEN {"STATLSPD", "STATPTMO", "STATFLT"} ELSE {})

\* the hardware changes a status variable
HardwareFlag(f) ==
    /\ f \in DevFlags(dev.cls)
    /\ dev' = [dev EXCEPT ![f] = ~ @, !.step = "hardware"]
    /\ UNCHANGED DevFrame

\* the hardware changes the setpoint variable
HardwareSetpoint(v) ==
    /\ setpoint_name(dev.cls) # None
    /\ v # dev.val
    /\ dev' = [dev EXCEPT !.val = v, !.step = "hardware"]
    /\ UNCHANGED DevFrame

\* another client writes the setting while set_odb sleeps
OdbSetExternally(v) ==
    /\ dev.op = "set_odb" /\ dev.pc = "loop"
    /\ v # dev.odb
    /\ dev' = [dev EXCEPT !.odb = v, !.step = "hardware"]
    /\ UNCHANGED DevFrame

AtRest ==
    /\ seqEnabled = FALSE
    /\ seqDryRun = FALSE
    /\ functions = Fill(QUEUE_MAX_LEN, "")
    /\ inputs = Fill(QUEUE_MAX_LEN, <<>>)
    /\ current = -1
    /\ scriptIsRunning = FALSE
    /\ queueLength = 0
    /\ nloops = 0
    /\ pEnabled = [p \in AllProcs |-> FALSE]
    /\ pDryRun = [p \in AllProcs |-> FALSE]
    /\ pExitErr = [p \in AllProcs |-> FALSE]
    /\ pPar = [p \in AllProcs |-> DefaultPar(p)]
    /\ settingsEnabled = [p \in AllProcs |-> FALSE]
    /\ runState = [p \in AllProcs |-> None]
    /\ hotlinks = <<>>
    /\ stack = <<>>
    /\ last = NoAct
    /\ event = NoEvent
    /\ call = NoCall
    /\ tally = NoTally

InitDevice ==
    /\ AtRest
    /\ \E cls \in DevClasses : \E dry \in BOOLEAN : \E timeout \in DevTimeoutVals :
          dev = DevNew(cls, dry, timeout)
    /\ pid = 0 /\ wt = 0 /\ cfg = 0 /\ ens = 0 /\ scr = 0

NextDevice ==
    \/ \E op \in DevOps(dev.cls) : \E arg \in DevArgs(op) : DevCall(op, arg)
    \/ DevResume
    \/ \E f \in DevFlags(dev.cls) : HardwareFlag(f)
    \/ \E v \in PvVals : HardwareSetpoint(v)
    \/ \E v \in OdbVals : OdbSetExternally(v)

SpecDevice == InitDevice /\ [][NextDevice]_vars
\* the process keeps running: a time.sleep that was entered returns
SpecDeviceLive == SpecDevice /\ WF_vars(DevResume)

(* ------------------------------ claims C21..C25 ------------------------- *)
\* C21: set(v) with v outside the control limits raises the out-of-range
\* error without a write to any variable of the device.  Violated: set() calls
\* healthcheck() before it compares v with the limits, and healthcheck() writes
\* RST when the timeout flag of the device is set.
C21_OutOfRangeWritesNothing ==
    (dev.op = "set" /\ dev.res = "RuntimeError: out of bounds") => dev.puts = {}

\* C22: when on(), off(), open(), close() or set() (of a device with a
\* setpoint) is called on a device that is interlocked, with dry_run false:
\* if the interlock is not bypassed the call raises EpicsInterlockError and
\* writes no variable; if it is bypassed the call does not raise that error.
C22_InterlockRefuses ==
    [][(/\ dev'.step = "call"
        /\ dev'.op \in SwitchOps \cup {"set"}
        /\ (dev'.op = "set" => setpoint_name(dev.cls) # None)
        /\ ~ dev.dry_run
        /\ ~ dev.STATINT)
       => IF dev.STATBYP
          THEN dev'.res # "EpicsInterlockError"
          ELSE dev'.res = "EpicsInterlockError" /\ dev'.pc = "idle" /\ dev'.puts = {}]_vars
C22_Witness ==
    /\ dev.step = "call" /\ dev.op = "set" /\ dev.res = "EpicsInterlockError"
    /\ ~ dev.STATINT /\ ~ dev.STATBYP /\ ~ dev.dry_run

\* C23: a healthcheck() that sleeps in its reset loop ends (returns, or raises
\* EpicsTimeoutError after at most two resets).  Violated for the turbo pump:
\* its sleep_time of 3 s exceeds reset_check_delay, so after the first reset
\* neither "time.time()-t0 < reset_check_delay" nor "nattempts == 0" holds
\* again, and while the flag stays set the loop only sleeps.
C23_HealthcheckEnds == (dev.pc = "healthcheck") ~> (dev.pc # "healthcheck")

\* C24: an on(), off(), open() or close() that passed healthcheck() and sleeps
\* in its loop ends (returns, or raises TimeoutError).  Violated when the
\* configured timeout is 0: "(self.timeout > 0) and ..." is then never true,
\* and while the readback does not change the loop writes and sleeps for ever.
C24_SwitchEnds == (dev.pc = "loop" /\ dev.op \in SwitchOps) ~> (dev.pc = "idle")

\* C25: in dry-run mode no operation writes: whatever operations were called
\* (on, off, open, close, set, reset, enable_auto, disable_auto, low of the
\* device, set_odb of the procedure) and however the hardware answered, the
\* operation under way or ended last has put no process variable and has not
\* written the settings store.
C25_DryRunWritesNothing == dev.dry_run => dev.puts = {}
\* in dry-run mode the reset loop of healthcheck() ended after two reset() calls
C25_Witness ==
    dev.dry_run /\ dev.op = "on" /\ dev.res = "EpicsTimeoutError" /\ dev.nattempts = 2

(* ========================= CryoScript.wait ============================== *)
(* A procedure whose run() calls wait().  wt.Enabled and wt.dry_run are the
   settings in the store, wt.settingsEnabled is self.settings['Enabled'],
   wt.hot counts the notifications of Enabled not yet delivered, wt.cond is
   what condition() returns now.  The notifications are those of Enabled
   being cleared: an activation started from inside communicate() is the
   matter of Activate and Resume above.  The log lines of wait() are left out. *)
WaitNew(dry, cond) ==
    [dry_run |-> dry, Enabled |-> TRUE, settingsEnabled |-> TRUE, hot |-> 0,
     cond |-> cond, pc |-> "run",
     \* history: the last step, and what ended the last wait
     step |-> "", found |-> ""]

\* "while not condition() and self.settings['Enabled']"
wait_goes_on_mut(w) == ~ w.cond
wait_goes_on(w) == ~ w.cond /\ w.settingsEnabled

\* the while test and, when it holds, the call of communicate(1000)
wait_loop(w) ==
    IF wait_goes_on(w) THEN [w EXCEPT !.pc = "wait"]
    ELSE [w EXCEPT !.pc = "run", !.found = IF w.cond THEN "condition" ELSE "disabled"]

WaitFrame == <<seqVars, procVars, hotlinks, stack, last, event, call, tally, pid, dev, cfg, ens, scr>>

\* run() calls wait(condition)
WaitCall ==
    /\ wt.pc = "run"
    /\ wt' = IF wt.dry_run
             THEN [wt EXCEPT !.step = "call", !.found = "bypassed"]
             ELSE wait_loop([wt EXCEPT !.step = "call", !.found = ""])
    /\ UNCHANGED WaitFrame

\* inside communicate(): a notification of Enabled is delivered; the settings
\* cache takes the value in the store
WaitDeliver ==
    /\ wt.pc = "wait"
    /\ wt.hot > 0
    /\ wt' = [wt EXCEPT !.hot = @ - 1, !.settingsEnabled = wt.Enabled, !.step = "deliver"]
    /\ UNCHANGED WaitFrame

\* communicate() returns
WaitResume ==
    /\ wt.pc = "wait"
    /\ wt' = wait_loop([wt EXCEPT !.step = "resume"])
    /\ UNCHANGED WaitFrame

\* what condition() reads changes
ConditionChanges ==
    /\ wt' = [wt EXCEPT !.cond = ~ @, !.step = "condition"]
    /\ UNCHANGED WaitFrame

\* the operator, or the sequencer, clears Enabled
EnabledCleared ==
    /\ wt.Enabled
    /\ wt' = [wt EXCEPT !.Enabled = FALSE, !.hot = @ + 1, !.step = "operator"]
    /\ UNCHANGED WaitFrame

\* the operator writes dry_run
DryRunSet(b) ==
    /\ b # wt.dry_run
    /\ wt' = [wt EXCEPT !.dry_run = b, !.step = "operator"]
    /\ UNCHANGED WaitFrame

InitWait ==
    /\ AtRest
    /\ \E dry \in BOOLEAN : \E cond \in BOOLEAN : wt = WaitNew(dry, cond)
    /\ pid = 0 /\ dev = 0 /\ cfg = 0 /\ ens = 0 /\ scr = 0

NextWait ==
    \/ WaitCall
    \/ WaitDeliver
    \/ WaitResume
    \/ ConditionChanges
    \/ EnabledCleared
    \/ \E b \in BOOLEAN : DryRunSet(b)

SpecWait == InitWait /\ [][NextWait]_vars
\* communicate() delivers the notifications that wait, and returns
SpecWaitLive == SpecWait /\ WF_vars(WaitDeliver) /\ WF_vars(WaitResume)

(* -------------------------------- claim C26 ----------------------------- *)
\* C26: a call of wait() returns at once in dry-run mode, and otherwise when
\* condition() is true or self.settings['Enabled'] is false; a return of
\* communicate() ends the wait exactly when it finds condition() true or
\* Enabled cleared; and a wait during which Enabled was cleared in the store
\* ends, whatever condition() does.
C26_WaitReturns ==
    /\ [][/\ wt'.step = "call"
             => (wt'.pc = "run" <=> (wt.dry_run \/ wt.cond \/ ~ wt.settingsEnabled))
          /\ wt'.step = "resume"
             => (wt'.pc = "run" <=> (wt.cond \/ ~ wt.settingsEnabled))]_vars
    /\ (wt.pc = "wait" /\ ~ wt.Enabled) ~> (wt.pc = "run")
C26_Witness ==
    wt.step = "resume" /\ wt.pc = "run" /\ wt.found = "disabled" /\ ~ wt.cond /\ ~ wt.dry_run

MaxNotes == 2

Gains == {"P", "I", "D"}
Limited == {"target_setpoint", "time_step_s", "output_limit_low", "output_limit_high",
            "target_high_thresh"}
Settings == {"Enabled", "inverted_output", "target_timeout_s"} \cup Gains \cup Limited

LIMITS(k) ==
    CASE k = "target_setpoint" -> <<0, 2000>>
      [] k = "time_step_s" -> <<0, 500>>
      [] k = "output_limit_low" -> <<0, 2000>>
      [] k = "output_limit_high" -> <<0, 2000>>
      [] k = "target_high_thresh" -> <<0, 500>>

DEFAULT_SETTINGS ==
    [k \in Settings |->
        CASE k = "Enabled" -> FALSE
          [] k = "P" -> 640
          [] k = "I" -> 1
          [] k = "D" -> 0
          [] k = "inverted_output" -> FALSE
          [] k = "target_setpoint" -> 350
          [] k = "target_high_thresh" -> 373
          [] k = "time_step_s" -> 10
          [] k = "output_limit_low" -> 0
          [] k = "output_limit_high" -> 2000
          [] k = "target_timeout_s" -> 30]

\* the values the operator writes
OperatorVals(k) ==
    CASE k \in {"Enabled", "inverted_output"} -> BOOLEAN
      [] k = "P" -> {640, 320}
      [] k = "I" -> {1, 2}
      [] k = "D" -> {0, 5}
      [] k = "target_setpoint" -> {-5, 350, 2500}
      [] k = "target_high_thresh" -> {-5, 373, 600}
      [] k = "time_step_s" -> {-5, 10, 600}
      [] k = "output_limit_low" -> {-5, 100}
      [] k = "output_limit_high" -> {500, 2500}
      [] k = "target_timeout_s" -> {0, 30}

\* "ctrl": the actuator is moved, by the loop or from outside
SettingGroups ==
    {Gains \cup {"inverted_output"},
     {"output_limit_low", "output_limit_high"},
     {"target_setpoint", "time_step_s"},
     {"target_high_thresh", "target_timeout_s"},
     {"ctrl"}}

\* "-1.0 if odb_value else 1.0"
sign(inverted_output) == IF inverted_output THEN -1 ELSE 1

\* limit_var: the value within the limits
limited_mut(k, val) == val
limited(k, val) ==
    IF val < LIMITS(k)[1] THEN LIMITS(k)[1]
    ELSE IF val > LIMITS(k)[2] THEN LIMITS(k)[2]
    ELSE val
\* limit_var(varname, val): a value out of the limits is replaced in the store
\* and the message sent; the loop takes the value within the limits
limit_var(c, k, val) ==
    LET v == limited(k, val)
        c1 == IF v # val
              THEN [c EXCEPT !.store[k] = v, !.hot = Append(@, k), !.clamped = @ \cup {k}]
              ELSE c
    IN [c1 EXCEPT !.eff[k] = v]
get_limited_var(c, k) == limit_var(c, k, c.store[k])

\* self.pv['ctrl'].get() in reset_pid()
actuator_now_mut(c) == c.last_setpoint
actuator_now(c) == c.ctrl

\* reset_pid()
reset_pid(c) ==
    LET inv == sign(c.store["inverted_output"])
        c1 == [c EXCEPT !.eff["inverted_output"] = inv,
                        !.memory = FALSE,
                        !.eff["P"] = c.store["P"] * inv,
                        !.eff["I"] = c.store["I"] * inv,
                        !.eff["D"] = c.store["D"] * inv]
        c2 == get_limited_var(c1, "target_setpoint")
        c3 == get_limited_var(c2, "output_limit_low")
        c4 == get_limited_var(c3, "output_limit_high")
        c5 == get_limited_var([c4 EXCEPT !.last_setpoint = actuator_now(c)], "time_step_s")
    IN [c5 EXCEPT !.eff["target_timeout_s"] = c.store["target_timeout_s"]]

\* the loop after __init__
CfgNew(g) ==
    LET c == [group |-> g, store |-> DEFAULT_SETTINGS, eff |-> DEFAULT_SETTINGS,
              ctrl |-> 0, last_setpoint |-> 0, memory |-> FALSE, hot |-> <<>>,
              \* history: the last step, the setting of the last callback, the
              \* settings limit_var has replaced in the store
              step |-> "", key |-> "", clamped |-> {}]
    IN get_limited_var(reset_pid(c), "target_high_thresh")

\* callback_main(client, path, idx, odb_value) of the Panic class and of the
\* base class
callback_main(c, k, odb_value) ==
    CASE k = "target_high_thresh" -> limit_var(c, k, odb_value)
      [] k = "Enabled" ->
            IF odb_value THEN reset_pid(c) ELSE [c EXCEPT !.last_setpoint = NaN]
      [] k \in Gains -> [c EXCEPT !.eff[k] = odb_value * c.eff["inverted_output"]]
      [] k = "target_setpoint" -> limit_var(c, k, odb_value)
      [] k = "output_limit_low" ->
            LET c1 == limit_var(c, k, odb_value)
            IN [c1 EXCEPT !.eff["output_limit_high"] = c1.store["output_limit_high"]]
      [] k = "output_limit_high" ->
            LET c1 == limit_var(c, k, odb_value)
            IN [c1 EXCEPT !.eff["output_limit_low"] = c1.store["output_limit_low"]]
      [] k = "time_step_s" -> limit_var(c, k, odb_value)
      [] k = "inverted_output" -> [c EXCEPT !.eff[k] = sign(odb_value)]
      [] k = "target_timeout_s" -> [c EXCEPT !.eff[k] = odb_value]

CfgFrame == <<seqVars, procVars, hotlinks, stack, last, event, call, tally, pid, dev, wt, ens, scr>>

\* the notification waiting longest is delivered
CfgCallback ==
    /\ cfg.hot # <<>>
    /\ LET k == Head(cfg.hot)
       IN cfg' = callback_main([cfg EXCEPT !.hot = Tail(@), !.step = "callback", !.key = k],
                               k, cfg.store[k])
    /\ UNCHANGED CfgFrame

\* the operator writes a setting
CfgOperatorSet(k, v) ==
    /\ k \in cfg.group \cup {"Enabled"}
    /\ k \in Settings
    /\ v \in OperatorVals(k)
    /\ v # cfg.store[k]
    /\ Len(cfg.hot) < MaxNotes
    /\ cfg' = [cfg EXCEPT !.store[k] = v, !.hot = Append(@, k), !.step = "operator"]
    /\ UNCHANGED CfgFrame

\* readout_func of the enabled loop puts a new control value: the PID object
\* takes in the measurement
CfgControl(val) ==
    /\ "ctrl" \in cfg.group
    /\ cfg.store["Enabled"]
    /\ cfg' = [cfg EXCEPT !.ctrl = val, !.last_setpoint = val, !.memory = TRUE,
                          !.step = "control"]
    /\ UNCHANGED CfgFrame

\* the actuator is set from outside
CfgActuatorSet(v) ==
    /\ "ctrl" \in cfg.group
    /\ v # cfg.ctrl
    /\ cfg' = [cfg EXCEPT !.ctrl = v, !.step = "actuator"]
    /\ UNCHANGED CfgFrame

InitSettings ==
    /\ AtRest
    /\ \E g \in SettingGroups : cfg = CfgNew(g)
    /\ pid = 0 /\ dev = 0 /\ wt = 0 /\ ens = 0 /\ scr = 0

NextSettings ==
    \/ CfgCallback
    \/ \E k \in Settings : \E v \in OperatorVals(k) : CfgOperatorSet(k, v)
    \/ \E val \in PidOutputs : CfgControl(val)
    \/ \E v \in ExternalVals : CfgActuatorSet(v)

SpecSettings == InitSettings /\ [][NextSettings]_vars

(* ------------------------------ claims C28..C30 ------------------------- *)
Pending(k) == \E i \in 1..Len(cfg.hot) : cfg.hot[i] = k

C30_GainsFollowInversion ==
    cfg.hot = <<>>
      => \A g \in Gains :
            cfg.eff[g] = cfg.store[g] * (IF cfg.store["inverted_output"] THEN -1 ELSE 1)

\* C31: a call of readout_func that finds the loop enabled and not in panic
\* while a required device is out of order sets Enabled to false, raises the
\* device-check alarm once and no other alarm, and puts no PID output and no
\* restored output on the actuator.
C31_DeviceCheckFails ==
    [][\A val \in PidOutputs : \A target_val \in TargetVals :
          (/\ pid.Enabled
           /\ ~ pid.panic_state
           /\ PidTick(period_s, val, target_val, FALSE))
          => /\ ~ pid'.Enabled
             /\ pid'.alarms = <<"device">>
             /\ ~ HasWrite(pid', "pid")
             /\ ~ HasWrite(pid', "restore")]_vars

\* a panic-capable loop that had a PID output on the actuator has just failed
\* the device check: the actuator is back at zero and the loop is disabled
C31_Witness ==
    /\ pid.variant = "ZeroOnDisable_Panic"
    /\ pid.step = "tick"
    /\ pid.alarms = <<"device">>
    /\ ~ pid.Enabled
    /\ ~ pid.panic_state
    /\ pid.writes = <<<<"zero", 0>>>>
    /\ pid.ctrl = 0

\* the drive variables written by the operation under way or just ended
Drives == dev.puts \cap {"DRVON", "DRVOFF"}

\* C32: of a valve, open() of the normal-closed class writes DRVON and never
\* DRVOFF, and close() writes DRVOFF and never DRVON; the normal-open class
\* has it the other way round; and in both classes, dry_run being false,
\* open() returns only on reading STATON set (is_open) and close() only on
\* reading it clear (is_closed).
C32_ValvePolarity ==
    /\ (dev.cls = "EpicsAV" /\ dev.op = "open") => Drives \subseteq {"DRVON"}
    /\ (dev.cls = "EpicsAV" /\ dev.op = "close") => Drives \subseteq {"DRVOFF"}
    /\ (dev.cls = "EpicsAVNormOpen" /\ dev.op = "open") => Drives \subseteq {"DRVOFF"}
    /\ (dev.cls = "EpicsAVNormOpen" /\ dev.op = "close") => Drives \subseteq {"DRVON"}
    /\ (/\ dev.cls \in {"EpicsAV", "EpicsAVNormOpen"}
        /\ ~ dev.dry_run
        /\ dev.step \in {"call", "resume"}
        /\ dev.res = "returned")
       => /\ dev.op = "open" => dev.STATON
          /\ dev.op = "close" => ~ dev.STATON

\* open() of a normal-open valve has written DRVOFF, slept, read the valve
\* open and returned
C32_Witness ==
    /\ dev.cls = "EpicsAVNormOpen"
    /\ dev.op = "open"
    /\ ~ dev.dry_run
    /\ dev.puts = {"DRVOFF"}
    /\ dev.step = "resume"
    /\ dev.res = "returned"
    /\ dev.STATON

\* ---------------------------------------------------------------------------
\* ensure_set of PIDCtrl_HTR204_PT206 and _ensure_set of AutoPurify: the
\* variable is put until it reads within 1 of the value.  Whether the
\* hardware takes a put is the environment's choice.
\* ---------------------------------------------------------------------------

EnsKinds == {"PIDCtrl_HTR204_PT206", "AutoPurify"}
EnsVals == {0, 50}
EnsReadings == {0, 50, 80}

\* "nlimit = 10", "nlimit = 100"
nlimit(k) == IF k = "AutoPurify" THEN 100 ELSE 10

\* kind, what the variable reads, the value asked for, the counter n, where
\* the call is; history: whether the call raised its alarm, the last step
EnsNew(k, reading) ==
    [kind |-> k, ctrl |-> reading, val |-> 0, n |-> 0, pc |-> "idle",
     alarmed |-> FALSE, step |-> ""]

\* "while abs(self.pv[setname].get() - val) > 1": the test, then time.sleep or
\* the end of the call
ensure_test(e) == [e EXCEPT !.pc = IF abs(e.ctrl - e.val) > 1 THEN "sleep" ELSE "idle"]

\* the body of the loop after time.sleep: the put, which the hardware takes or
\* not, the count, the alarm at n > nlimit, and the test again
ensure_pass(e, taken) ==
    LET a == [e EXCEPT !.ctrl = IF taken THEN e.val ELSE @, !.n = @ + 1]
        b == IF a.n > nlimit(a.kind) THEN [a EXCEPT !.n = 0, !.alarmed = TRUE] ELSE a
    IN ensure_test(b)

EnsFrame == <<seqVars, procVars, hotlinks, stack, last, event, call, tally, pid, dev, wt, cfg, scr>>

\* ensure_set(setname, val) is called
EnsCall(val) ==
    /\ ens.pc = "idle"
    /\ ens' = ensure_test([ens EXCEPT !.val = val, !.n = 0, !.alarmed = FALSE,
                                      !.step = "call"])
    /\ UNCHANGED EnsFrame

\* time.sleep(delay) returns
EnsResume(taken) ==
    /\ ens.pc = "sleep"
    /\ ens' = ensure_pass([ens EXCEPT !.step = "resume"], taken)
    /\ UNCHANGED EnsFrame

EnsSleepReturns == \E taken \in BOOLEAN : EnsResume(taken)

\* the hardware, or somebody else, moves the variable
EnsMoved(v) ==
    /\ v # ens.ctrl
    /\ ens' = [ens EXCEPT !.ctrl = v, !.step = "hardware"]
    /\ UNCHANGED EnsFrame

InitEnsure ==
    /\ AtRest
    /\ \E k \in EnsKinds : \E reading \in EnsReadings : ens = EnsNew(k, reading)
    /\ pid = 0 /\ dev = 0 /\ wt = 0 /\ cfg = 0 /\ scr = 0

NextEnsure ==
    \/ \E val \in EnsVals : EnsCall(val)
    \/ EnsSleepReturns
    \/ \E v \in EnsReadings : EnsMoved(v)

SpecEnsure == InitEnsure /\ [][NextEnsure]_vars
\* the process keeps running: a time.sleep that was entered returns
SpecEnsureLive == SpecEnsure /\ WF_vars(EnsSleepReturns)

\* C33: a call of ensure_set that entered its loop ends, whether the variable
\* comes to read within 1 of the value or not.
C33_EnsureSetEnds == (ens.pc = "sleep") ~> (ens.pc = "idle")

\* C36: whenever Enabled goes from false to true, panic_state is false, so
\* that the first call of readout_func of the re-enabled loop checks the
\* devices, and no call of a re-enabled loop that has not panicked since
\* restores an output.
C36_ReenabledOutOfPanic ==
    [][(pid.variant \in PanicVariants /\ ~ pid.Enabled /\ pid'.Enabled)
       => ~ pid'.panic_state]_vars

\* C34: an activation in which check_status() raised, so that run() was not
\* invoked and set no run_state, calls no exit() that issues device commands,
\* whatever the activations before it left behind.
C34_ExitOnlyAfterRun ==
    (last.proc # "" /\ ~ last.ran)
    => ~ (last.nexit > 0 /\ Len(exit(last.proc, runState[last.proc]).cmds) > 0)

\* ---------------------------------------------------------------------------
\* run() of StartCooling and StopRecovery, statement by statement: device
\* commands, and calls of wait_until_lessthan that block in wait() while the
\* reading is above the threshold and settings['Enabled'] is true.
\* ---------------------------------------------------------------------------

ScrProcs == {"StartCooling", "StopRecovery"}

\* the devices waited for, in the order of run()
Waits(p) ==
    IF p = "StartCooling" THEN <<"PT050", "TS512", "TS513">> ELSE <<"PT004", "PT005">>

\* the commands run() issues before its i-th wait, and after the last one
Block(p, i) ==
    IF p = "StartCooling"
    THEN CASE i = 1 -> <<"HTR010.set", "HTR010.on", "HTR012.set", "HTR012.on",
                         "HTR105.set", "HTR105.on", "HTR107.set", "HTR107.on">>
           [] i = 2 -> <<"CP101.on">>
           [] i = 3 -> <<>>
           [] i = 4 -> <<"CP001.on",
                         "PID_PUR_ISO70K.target_setpoint", "PID_PUR_ISO70K.Enabled",
                         "PID_PUR_ISO20K.target_setpoint", "PID_PUR_ISO20K.Enabled",
                         "PID_PUR_HE20K.target_setpoint", "PID_PUR_HE20K.Enabled",
                         "PID_PUR_HE70K.target_setpoint", "PID_PUR_HE70K.Enabled">>
    ELSE CASE i \in {1, 2} -> <<>>
           [] i = 3 -> <<"AV024.close", "AV025.close">>

\* the procedure, its dry_run, Enabled in the store and in self.settings, the
\* notifications of Enabled under way, the wait run() is blocked in (0: run()
\* is not in progress); history: the commands of the activation, whether
\* Enabled was cleared from outside while run() was blocked, the last step
ScrNew(p, dry) ==
    [proc |-> p, dry_run |-> dry, Enabled |-> FALSE, settingsEnabled |-> FALSE,
     hot |-> 0, pc |-> 0, cmds |-> <<>>, cleared |-> FALSE, step |-> ""]

\* the finally clause: Enabled is set to False
scr_finish(s) == [s EXCEPT !.pc = 0, !.Enabled = FALSE, !.hot = @ + 1]

\* whether wait() blocks, the reading being above the threshold
scr_blocks(s) == ~ s.dry_run /\ s.settingsEnabled

\* run() from the commands before its i-th wait on, up to the wait it blocks
\* in or to its end: a command may raise, a reading may be below or above
RECURSIVE scr_run(_, _)
scr_run(s, i) ==
    LET b == Block(s.proc, i)
        done == [s EXCEPT !.cmds = @ \o b]
    IN {scr_finish([s EXCEPT !.cmds = @ \o SubSeq(b, 1, k)]) : k \in 0..(Len(b) - 1)}
       \cup (IF i > Len(Waits(s.proc)) THEN {scr_finish(done)}
             ELSE scr_run(done, i + 1)
                  \cup (IF scr_blocks(done) THEN {[done EXCEPT !.pc = i]} ELSE {}))

ScrFrame == <<seqVars, procVars, hotlinks, stack, last, event, call, tally, pid, dev, wt, cfg, ens>>

\* Enabled is set and its notification delivered: check_status() passes and
\* run() is invoked
ScrActivate ==
    /\ scr.pc = 0
    /\ scr.hot = 0
    /\ \E t \in scr_run([scr EXCEPT !.Enabled = TRUE, !.settingsEnabled = TRUE,
                                    !.cmds = <<>>, !.cleared = FALSE,
                                    !.step = "activate"], 1) : scr' = t
    /\ UNCHANGED ScrFrame

\* communicate() delivers a notification of Enabled: self.settings follows
ScrDeliver ==
    /\ scr.hot > 0
    /\ scr' = [scr EXCEPT !.hot = @ - 1, !.settingsEnabled = scr.Enabled, !.step = "deliver"]
    /\ UNCHANGED ScrFrame

\* communicate() returns to wait(): "while not condition() and
\* self.settings['Enabled']"
ScrResume(condition) ==
    /\ scr.pc > 0
    /\ LET s == [scr EXCEPT !.step = "resume"]
       IN IF ~ condition /\ s.settingsEnabled
          THEN scr' = s
          ELSE \E t \in scr_run(s, s.pc + 1) : scr' = t
    /\ UNCHANGED ScrFrame

\* somebody clears Enabled while run() is blocked in wait()
ScrEnabledCleared ==
    /\ scr.pc > 0
    /\ scr.Enabled
    /\ scr' = [scr EXCEPT !.Enabled = FALSE, !.hot = @ + 1, !.cleared = TRUE,
                          !.step = "cleared"]
    /\ UNCHANGED ScrFrame

InitScript ==
    /\ AtRest
    /\ \E p \in ScrProcs : \E dry \in BOOLEAN : scr = ScrNew(p, dry)
    /\ pid = 0 /\ dev = 0 /\ wt = 0 /\ cfg = 0 /\ ens = 0

NextScript ==
    \/ ScrActivate
    \/ ScrDeliver
    \/ \E condition \in BOOLEAN : ScrResume(condition)
    \/ ScrEnabledCleared

SpecScript == InitScript /\ [][NextScript]_vars

\* C35: once Enabled was cleared from outside while run() was blocked in
\* wait() and the procedure has been notified of it, the activation issues no
\* device command and enables no control loop: its list of commands stays as
\* it was when wait() returns and run() goes on.
C35_NoCommandAfterStop ==
    [][(scr.cleared /\ scr.pc > 0 /\ ~ scr.settingsEnabled)
       => scr'.cmds = scr.cmds]_vars

\* rpc_handler, cmd 'remove': the status and message it returns after
\* queue_remove(int(args)), which returns None whether it removed or refused;
\* an IndexError of list.pop leaves rpc_handler
rpc_remove(case) ==
    IF case = "remove_error" THEN [status |-> "IndexError", msg |-> ""]
    ELSE [status |-> "SUCCESS", msg |-> "Removed"]

\* C38: a remove command answers SUCCESS and 'Removed' only for an entry
\* that was removed: the answer to a removal that was refused because the
\* entry is the running one is not SUCCESS.
C38_RemoveAnswer ==
    event = "remove_rejected" => rpc_remove(event).status # "SUCCESS"

\* C37: the delivery to the sequencer of Enabled = false, written by the
\* operator or by queue_clear(), leaves no procedure enabled: the procedure
\* that was running has its Enabled cleared.
C37_StopClearsRunning ==
    [][(DispatchSeqEnabled /\ ~ seqEnabled)
       => \A p \in SeqProcs : pEnabled[p] => ~ pEnabled'[p]]_vars

\* idx is the index of an entry of the queue, and its slot names a procedure
InsideQueue(idx) == 0 <= idx /\ idx < queueLength /\ PyGet(functions, idx) # ""

\* C40: every call of start_script is for the index of an entry of the queue:
\* the delivery of Enabled = true with a queue that is not empty starts the
\* entry at the cursor, which lies in [0, _queue_length), and the completion
\* without error of an entry starts the next entry, or entry 0 of a queue that
\* is not empty; no empty slot and no index outside the queue is started.
C40_StartsInsideQueue ==
    [][/\ (DispatchSeqEnabled /\ seqEnabled /\ ~ queue_empty) => InsideQueue(current)
       /\ (DispatchSeqScriptIsRunning /\ completion_seen /\ ~ error_exit
             /\ current + 1 < queueLength) => InsideQueue(current + 1)
       /\ (DispatchSeqScriptIsRunning /\ completion_seen /\ ~ error_exit
             /\ current + 1 >= queueLength /\ loop_again) => InsideQueue(0)]_vars

\* the index arguments of a page that sends any integer: -1, the indices of
\* the entries and the two indices past the end
AnyIdxArgs == -1..(queueLength + 1)

\* the operator adds, removes, moves and clears with any index while the
\* sequencer is stopped
NextQueueAny ==
    \/ \E name \in QueueProcs : RpcAdd(name)
    \/ \E idx \in AnyIdxArgs : RpcRemove(idx)
    \/ \E idx \in AnyIdxArgs : RpcUp(idx)
    \/ \E idx \in AnyIdxArgs : RpcDown(idx)
    \/ RpcClear
    \/ DispatchSeqEnabled

\* DEFAULT_SETTINGS: the empty queue, the cursor at -1
InitQueueAny == AtRest /\ PidIdle

SpecQueueAny == InitQueueAny /\ [][NextQueueAny]_vars

\* C39: after any sequence of add, remove, up, down and clear commands with
\* any integer index the queue is dense: the slots below _queue_length name
\* a procedure and the slots at or above it are empty, so that _queue_length
\* counts the entries added and not removed.
C39_QueueDense ==
    \A i \in 1..Len(functions) :
        /\ i <= queueLength => functions[i] # ""
        /\ i > queueLength => functions[i] = ""

====
